---- MODULE Spec2Model ----
(***************************************************************************)
(* A model of the ccnes emulator core (core/src): the console Nes that     *)
(* owns a Cpu, a Bus and a Clock; the Bus owns the RAM, the Ppu, the Apu,   *)
(* the controller latches, the OAM-DMA state and the Cartridge.             *)
(*                                                                         *)
(* Every operation of the code is an operator on the record of the object  *)
(* it mutates, named after the method it models and returning the mutated  *)
(* record (with the returned value when the method returns one).  Memories *)
(* (RAM, VRAM, OAM, palette) are kept sparse: a function on the addresses   *)
(* that hold a non-zero byte, every other address reading 0.  The RGB       *)
(* framebuffer and the audio sample pipeline are outputs that no operation *)
(* of the core reads back; they are not part of the state.                  *)
(***************************************************************************)
EXTENDS Integers, Sequences, FiniteSets, TLC

VARIABLES
    nes,      \* the console: [cpu, bus, clock]
    host,     \* the caller of the console: its position in run_frame, its save slot
    obs       \* observations of the run made for the properties below

vars == <<nes, host, obs>>

---------------------------------------------------------------------------
(* Bit arithmetic on u8 / u16 values.                                      *)

Bit(v, k) == (v \div (2 ^ k)) % 2

\* bits lo .. lo+n-1 of v, shifted down: (v >> lo) & (2^n - 1)
Field(v, lo, n) == (v \div (2 ^ lo)) % (2 ^ n)

\* v with bits lo .. lo+n-1 replaced by f: (v & !mask) | (f << lo)
SetField(v, lo, n, f) == (v - (Field(v, lo, n) * (2 ^ lo))) + ((f % (2 ^ n)) * (2 ^ lo))

SetBit(v, k) == SetField(v, k, 1, 1)
ClearBit(v, k) == SetField(v, k, 1, 0)
FlipBit(v, k) == SetField(v, k, 1, 1 - Bit(v, k))

\* a | b on u16 values
BitOr(a, b) ==
    LET or(k) == IF Bit(a, k) = 1 \/ Bit(b, k) = 1 THEN 2 ^ k ELSE 0
    IN  or(0) + or(1) + or(2) + or(3) + or(4) + or(5) + or(6) + or(7)
        + or(8) + or(9) + or(10) + or(11) + or(12) + or(13) + or(14) + or(15)

BitAnd(a, b) ==
    LET and(k) == IF Bit(a, k) = 1 /\ Bit(b, k) = 1 THEN 2 ^ k ELSE 0
    IN  and(0) + and(1) + and(2) + and(3) + and(4) + and(5) + and(6) + and(7)

Wrap8(v) == v % 256
Wrap16(v) == v % 65536

\* `d as i8`: the signed value of a byte
Signed8(d) == IF d >= 128 THEN d - 256 ELSE d

\* sparse memories
\* F(v), with v computed before F is applied to it
Then(v, F(_)) == CHOOSE e \in {F(x) : x \in {v}} : TRUE

Get(mem, i) == IF i \in DOMAIN mem THEN mem[i] ELSE 0
Put(mem, i, val) ==
    IF val = 0 THEN [j \in (DOMAIN mem) \ {i} |-> mem[j]]
    ELSE [j \in (DOMAIN mem) \cup {i} |-> IF j = i THEN val ELSE mem[j]]
Empty == [j \in {} |-> 0]

---------------------------------------------------------------------------
(* Cartridges.  A cartridge is an NROM (mapper 0) image with one 16 KiB    *)
(* PRG bank and no CHR-ROM; `reset`, `nmi` and `irq` are the machine code   *)
(* at $8000, $8040 and $8050, which the three vectors point at.            *)

PrgRom(cart, index) ==
    IF cart.name = "banks"
    THEN CASE index % \h2000 = 0 -> (index \div \h2000) + 1
           [] index % \h2000 = 2 -> \hFE
           [] OTHER -> \hFF
    ELSE IF index < Len(cart.reset) THEN cart.reset[index + 1]
    ELSE IF index >= \h40 /\ index < \h40 + Len(cart.nmi)
        THEN cart.nmi[index - \h40 + 1]
    ELSE IF index >= \h50 /\ index < \h50 + Len(cart.irq)
        THEN cart.irq[index - \h50 + 1]
    ELSE CASE index = \h3FFA -> \h40
           [] index = \h3FFB -> \h80
           [] index = \h3FFC -> \h00
           [] index = \h3FFD -> cart.entry
           [] index = \h3FFE -> \h50
           [] index = \h3FFF -> \h80
           [] OTHER -> 0

\* Mapper0::read_prg with prg_rom.len() == 16384
Mapper0_read_prg(cart, addr) ==
    IF addr >= \h8000 THEN PrgRom(cart, addr % \h4000) ELSE 0

\* Mapper0::read_chr: the "hit" cartridge has 8 KiB of CHR-ROM, every byte
\* $FF; every other cartridge has an empty chr_rom
Mapper0_read_chr(cart, addr) ==
    IF addr < \h2000 /\ cart.name = "hit" THEN \hFF ELSE 0

\* A "banks" cartridge is a PRG-ROM of prg_size bytes and no CHR-ROM, in which
\* the k-th 8 KiB starts with the bytes k + 1, $FF, $FE and is $FF from there
\* on; every other cartridge is 16 KiB.
Cartridge_prg_len(cart) == IF cart.name = "banks" THEN cart.prg_size ELSE \h4000

\* what a read gives when the indexing panics
Panic == 0 - 1

\* prg_rom[index] of a slice of length len
PrgIndex(cart, len, index) == IF index < len THEN PrgRom(cart, index) ELSE Panic

\* prg_rom.get(index).copied().unwrap_or(0)
PrgGet(cart, len, index) == IF index < len THEN PrgRom(cart, index) ELSE 0

Mapper0_new == [number |-> 0]

Mapper1_new ==
    [number |-> 1, shift_register |-> \h10, shift_count |-> 0, control |-> \h0C,
     chr_bank0 |-> 0, chr_bank1 |-> 0, prg_bank |-> 0]

\* Mapper1::read_prg; len is prg_rom.len(), at least 16384 here
Mapper1_read_prg(m, addr, cart, len) ==
    LET mode16 == Bit(m.control, 3) = 1
        lo == IF mode16 THEN m.prg_bank ELSE 0
        hi == IF mode16
              THEN IF Bit(m.control, 2) = 1 THEN (len \div \h4000) - 1 ELSE m.prg_bank
              ELSE 1
    IN  IF addr < \h8000 THEN 0
        ELSE PrgIndex(cart, len, ((IF addr < \hC000 THEN lo ELSE hi) * \h4000) + (addr % \h4000))

\* a write_prg whose fifth write keeps all five bits in prg_bank
Mapper1_write_prg_five(m, addr, value) ==
    LET sr == (m.shift_register \div 2) + ((value % 2) * 16)
        reg == (addr \div \h2000) % 4
        commit == [m EXCEPT !.control = IF reg = 0 THEN sr ELSE m.control,
                            !.chr_bank0 = IF reg = 1 THEN sr ELSE m.chr_bank0,
                            !.chr_bank1 = IF reg = 2 THEN sr ELSE m.chr_bank1,
                            !.prg_bank = IF reg = 3 THEN sr ELSE m.prg_bank,
                            !.shift_register = \h10, !.shift_count = 0]
    IN  IF addr < \h8000 THEN m
        ELSE IF Bit(value, 7) = 1
        THEN [m EXCEPT !.shift_register = \h10, !.shift_count = 0,
                       !.control = BitOr(m.control, \h0C)]
        ELSE IF m.shift_register % 2 = 1 THEN commit
        ELSE [m EXCEPT !.shift_register = sr, !.shift_count = m.shift_count + 1]

\* Mapper1::write_prg
Mapper1_write_prg(m, addr, value) ==
    LET sr == (m.shift_register \div 2) + ((value % 2) * 16)
        reg == (addr \div \h2000) % 4
        commit == [m EXCEPT !.control = IF reg = 0 THEN sr ELSE m.control,
                            !.chr_bank0 = IF reg = 1 THEN sr ELSE m.chr_bank0,
                            !.chr_bank1 = IF reg = 2 THEN sr ELSE m.chr_bank1,
                            !.prg_bank = IF reg = 3 THEN sr % 16 ELSE m.prg_bank,
                            !.shift_register = \h10, !.shift_count = 0]
    IN  IF addr < \h8000 THEN m
        ELSE IF Bit(value, 7) = 1
        THEN [m EXCEPT !.shift_register = \h10, !.shift_count = 0,
                       !.control = BitOr(m.control, \h0C)]
        ELSE IF m.shift_register % 2 = 1 THEN commit
        ELSE [m EXCEPT !.shift_register = sr, !.shift_count = m.shift_count + 1]

Mapper2_new(prg_size) ==
    [number |-> 2, prg_bank |-> 0, prg_banks |-> (prg_size \div \h4000) % 256]

\* Mapper2::read_prg; prg_banks is at least 1 here
Mapper2_read_prg(m, addr, cart, len) ==
    IF addr < \h8000 THEN 0
    ELSE PrgIndex(cart, len, ((IF addr < \hC000 THEN m.prg_bank ELSE m.prg_banks - 1) * \h4000)
                                + (addr % \h4000))

\* Mapper2::write_prg
Mapper2_write_prg(m, addr, value) ==
    IF addr >= \h8000 THEN [m EXCEPT !.prg_bank = value % 16] ELSE m

Mapper7_new(prg_rom_size) ==
    [number |-> 7, prg_bank |-> 0, mirroring_mode |-> 0, prg_rom_size |-> prg_rom_size]

\* Mapper7::read_prg
Mapper7_read_prg(m, addr, cart, len) ==
    IF addr < \h8000 THEN 0
    ELSE PrgGet(cart, len, (m.prg_bank * \h8000) + (addr - \h8000))

Mapper4_new(prg_rom_size, chr_rom_size) ==
    [number |-> 4, bank_select |-> 0, bank_data |-> [i \in 0..7 |-> 0],
     prg_banks |-> [i \in 0..3 |->
                      CASE i = 0 -> 0
                        [] i = 1 -> \h2000
                        [] i = 2 -> IF prg_rom_size < \h4000 THEN 0 ELSE prg_rom_size - \h4000
                        [] i = 3 -> IF prg_rom_size < \h2000 THEN 0 ELSE prg_rom_size - \h2000],
     chr_banks |-> [i \in 0..7 |-> 0],
     mirroring_mode |-> 0,
     irq_enabled |-> FALSE, irq_counter |-> 0, irq_latch |-> 0, irq_reload |-> FALSE,
     irq_pending |-> FALSE, last_a12 |-> FALSE, a12_filter |-> 0,
     prg_ram |-> Empty, chr_ram |-> Empty,
     prg_rom_size |-> prg_rom_size, chr_rom_size |-> chr_rom_size]

\* x.min(y)
Min(x, y) == IF x < y THEN x ELSE y

\* x.saturating_sub(y)
SatSub(x, y) == IF x < y THEN 0 ELSE x - y

\* Mapper4::update_banks; prg_rom_size is at least 0x4000 here, so that the
\* subtractions do not underflow
Mapper4_update_banks(m) ==
    LET d == m.bank_data
        even(v) == v - (v % 2)
        odd(v) == even(v) + 1
        prg == IF Bit(m.bank_select, 6) = 0
               THEN [m.prg_banks EXCEPT ![0] = (d[6] % 64) * \h2000,
                                        ![1] = (d[7] % 64) * \h2000,
                                        ![2] = m.prg_rom_size - \h4000]
               ELSE [m.prg_banks EXCEPT ![0] = m.prg_rom_size - \h4000,
                                        ![1] = (d[7] % 64) * \h2000,
                                        ![2] = (d[6] % 64) * \h2000]
        order == IF Bit(m.bank_select, 7) = 0
                 THEN << even(d[0]), odd(d[0]), even(d[1]), odd(d[1]), d[2], d[3], d[4], d[5] >>
                 ELSE << d[2], d[3], d[4], d[5], even(d[0]), odd(d[0]), even(d[1]), odd(d[1]) >>
    IN  [m EXCEPT
            !.prg_banks = [i \in 0..3 |-> Min(prg[i], SatSub(m.prg_rom_size, \h2000))],
            !.chr_banks = [i \in 0..7 |->
                             IF m.chr_rom_size > 0
                             THEN Min(order[i + 1] * \h400, SatSub(m.chr_rom_size, \h400))
                             ELSE order[i + 1] * \h400]]

\* Mapper4::clock_scanline, which nothing calls: read_chr and write_chr take
\* the address but cannot clock through the Mapper trait
Mapper4_clock_scanline(m, addr) ==
    LET a12 == Bit(addr, 12) = 1
        count == IF m.irq_counter = 0 \/ m.irq_reload THEN m.irq_latch
                 ELSE m.irq_counter - 1
        edge == IF ~m.last_a12 /\ a12 /\ m.a12_filter = 0
                THEN [m EXCEPT !.a12_filter = 15, !.irq_counter = count, !.irq_reload = FALSE,
                               !.irq_pending = m.irq_pending \/ (count = 0 /\ m.irq_enabled)]
                ELSE m
    IN  [edge EXCEPT !.a12_filter = SatSub(edge.a12_filter, 1), !.last_a12 = a12]

\* Mapper4::read_prg
Mapper4_read_prg(m, addr, cart, len) ==
    IF addr < \h6000 THEN 0
    ELSE IF addr < \h8000 THEN Get(m.prg_ram, addr - \h6000)
    ELSE PrgGet(cart, len, m.prg_banks[(addr - \h8000) \div \h2000] + (addr % \h2000))

\* Mapper4::write_prg
Mapper4_write_prg(m, addr, value) ==
    LET even == addr % 2 = 0
    IN  IF addr < \h6000 THEN m
        ELSE IF addr < \h8000 THEN [m EXCEPT !.prg_ram = Put(m.prg_ram, addr - \h6000, value)]
        ELSE IF addr < \hA000
            THEN IF even THEN [m EXCEPT !.bank_select = value]
                 ELSE Mapper4_update_banks([m EXCEPT !.bank_data[m.bank_select % 8] = value])
        ELSE IF addr < \hC000
            THEN IF even THEN [m EXCEPT !.mirroring_mode = value % 2] ELSE m
        ELSE IF addr < \hE000
            THEN IF even THEN [m EXCEPT !.irq_latch = value]
                 ELSE [m EXCEPT !.irq_reload = TRUE, !.irq_counter = 0]
        ELSE IF even THEN [m EXCEPT !.irq_enabled = FALSE, !.irq_pending = FALSE]
             ELSE [m EXCEPT !.irq_enabled = TRUE]

\* Mapper4::read_chr with an empty chr_rom: the CHR RAM
Mapper4_read_chr(m, addr) == Get(m.chr_ram, addr)

\* Mapper7::write_prg: current_data is read from an empty slice
Mapper7_write_prg(m, addr, value, cart) ==
    LET set(actual_value) ==
            [m EXCEPT !.prg_bank = Min(actual_value % 8, SatSub(m.prg_rom_size \div \h8000, 1)),
                      !.mirroring_mode = Bit(actual_value, 4)]
        conflict(current_data) ==
            set(IF current_data # 0 THEN BitAnd(value, current_data) ELSE value)
    IN  IF addr >= \h8000 THEN conflict(Mapper7_read_prg(m, addr, cart, 0)) ELSE m

\* Cartridge::read_prg
Cartridge_read_prg(cart, addr) ==
    LET m == cart.mapper
        len == Cartridge_prg_len(cart)
    IN  CASE m.number = 0 -> Mapper0_read_prg(cart, addr)
          [] m.number = 1 -> Mapper1_read_prg(m, addr, cart, len)
          [] m.number = 2 -> Mapper2_read_prg(m, addr, cart, len)
          [] m.number = 4 -> Mapper4_read_prg(m, addr, cart, len)
          [] m.number = 7 -> Mapper7_read_prg(m, addr, cart, len)

\* Cartridge::write_prg
Cartridge_write_prg(cart, addr, value) ==
    LET m == cart.mapper
    IN  [cart EXCEPT !.mapper =
            CASE m.number = 0 -> m
              [] m.number = 1 -> Mapper1_write_prg(m, addr, value)
              [] m.number = 2 -> Mapper2_write_prg(m, addr, value)
              [] m.number = 4 -> Mapper4_write_prg(m, addr, value)
              [] m.number = 7 -> Mapper7_write_prg(m, addr, value, cart)]

\* Cartridge::read_chr
Cartridge_read_chr(cart, addr) ==
    IF cart.mapper.number = 4 THEN Mapper4_read_chr(cart.mapper, addr)
    ELSE Mapper0_read_chr(cart, addr)

---------------------------------------------------------------------------
(* Ppu: the registers.                                                     *)

Ppu_new ==
    [ ctrl |-> 0, mask |-> 0, status |-> 0, oam_addr |-> 0,
      vram |-> Empty, palette |-> Empty, oam |-> Empty,
      secondary_oam |-> [i \in 0..31 |-> 0],
      scanline |-> 0, cycle |-> 0, frame |-> 0,
      buffer |-> 0, open_bus |-> 0, suppress_vbl |-> FALSE,
      v |-> 0, t |-> 0, x |-> 0, w |-> FALSE,
      bg_shift_pattern_lo |-> 0, bg_shift_pattern_hi |-> 0,
      bg_shift_attrib_lo |-> 0, bg_shift_attrib_hi |-> 0,
      bg_next_tile_id |-> 0, bg_next_tile_attrib |-> 0,
      bg_next_tile_lsb |-> 0, bg_next_tile_msb |-> 0,
      sprite_count |-> 0,
      sprite_patterns_lo |-> [i \in 0..7 |-> 0],
      sprite_patterns_hi |-> [i \in 0..7 |-> 0],
      sprite_positions |-> [i \in 0..7 |-> 0],
      sprite_indexes |-> [i \in 0..7 |-> 0],
      sprite_attributes |-> [i \in 0..7 |-> 0],
      nmi_output |-> FALSE, nmi_occurred |-> FALSE, odd_frame |-> FALSE,
      \* instrumentation, not program state: calls of step so far, the call that
      \* last set VBlank (0: none), the calls between the last two VBlank sets
      \* (0: fewer than two), whether a dot was skipped at the end of the
      \* pre-render line between them, the number of VBlank sets, and the last
      \* read of PPUSTATUS made when the next call of step was the one at
      \* scanline 241, dot 1: that there was one, its bit 7, the calls before it;
      \* and where render_pixel last set the sprite-0 hit flag: the scanline,
      \* the dot, the background pixel and the pixel of sprite slot 0
      probe |-> [ticks |-> 0, vbl_tick |-> 0, vbl_gap |-> 0,
                 skip |-> FALSE, gap_skip |-> FALSE, vbl_sets |-> 0,
                 race |-> [seen |-> FALSE, bit7 |-> 0, tick |-> 0],
                 hit |-> << >>] ]

Ppu_is_rendering(ppu) == Field(ppu.mask, 3, 2) # 0

Ppu_addr_increment(ppu) == IF Bit(ppu.ctrl, 2) = 1 THEN 32 ELSE 1

Ppu_mirror_address(addr) ==
    LET a == (addr - \h2000) % \h1000
    IN  CASE a \div \h400 = 0 -> a
          [] a \div \h400 = 1 -> a - \h400
          [] a \div \h400 = 2 -> a - \h400
          [] a \div \h400 = 3 -> a - \h800

\* a palette index without the fold of $10, $14, $18 and $1C
Ppu_palette_addr_flat(addr) == addr % 32

\* the palette index of a PPU address at or above $3F00
Ppu_palette_addr(addr) ==
    LET pa == addr % 32
    IN  IF pa >= 16 /\ pa % 4 = 0 THEN pa % 16 ELSE pa

Ppu_palette_mask(ppu, val) ==
    IF Bit(ppu.mask, 0) = 1 THEN Field(val, 4, 2) * 16 ELSE val % 64

Ppu_write_oam_byte(ppu, addr, value) ==
    LET oam1 == Put(ppu.oam, addr, value)
        corrupt == Ppu_is_rendering(ppu) /\ ppu.cycle >= 1 /\ ppu.cycle <= 64
        oam2 == [i \in 0..7 |-> (Get(oam1, i) \div 32) * 32 + Field(addr, 2, 3)]
        nz == {i \in 0..7 : oam2[i] # 0}
    IN  IF corrupt
        THEN [ppu EXCEPT !.oam =
                [j \in ((DOMAIN oam1) \ (0..7)) \cup nz |->
                    IF j \in 0..7 THEN oam2[j] ELSE oam1[j]]]
        ELSE [ppu EXCEPT !.oam = oam1]

Ppu_read_register(ppu, reg) ==
    CASE reg = 2 ->
            LET value == (ppu.status \div 32) * 32 + (ppu.open_bus % 32)
            IN  [ ppu |-> [ppu EXCEPT !.status = ClearBit(ppu.status, 7),
                                      !.w = FALSE,
                                      !.suppress_vbl =
                                          IF ppu.scanline = 241 /\ ppu.cycle = 0
                                          THEN TRUE ELSE ppu.suppress_vbl,
                                      !.open_bus = value,
                                      !.probe.race =
                                          IF ppu.scanline = 241 /\ ppu.cycle = 1
                                          THEN [seen |-> TRUE, bit7 |-> Bit(value, 7),
                                                tick |-> ppu.probe.ticks]
                                          ELSE ppu.probe.race],
                  value |-> value ]
      [] reg = 4 ->
            LET data == Get(ppu.oam, ppu.oam_addr)
            IN  IF Ppu_is_rendering(ppu) /\ ppu.cycle >= 1 /\ ppu.cycle <= 64
                THEN [ppu |-> [ppu EXCEPT !.open_bus = \hFF], value |-> \hFF]
                ELSE [ppu |-> [ppu EXCEPT !.open_bus = data], value |-> data]
      [] reg = 7 ->
            LET addr == ppu.v % \h4000
                value == IF addr >= \h3F00
                         THEN Ppu_palette_mask(ppu, Get(ppu.palette, Ppu_palette_addr(addr)))
                         ELSE ppu.buffer
                buffer == IF addr >= \h3F00 THEN ppu.buffer
                          ELSE IF addr >= \h2000
                              THEN Get(ppu.vram, Ppu_mirror_address(addr))
                          ELSE ppu.open_bus
            IN  [ ppu |-> [ppu EXCEPT !.buffer = buffer,
                                      !.v = Wrap16(ppu.v + Ppu_addr_increment(ppu)),
                                      !.open_bus = value],
                  value |-> value ]
      [] OTHER -> [ppu |-> ppu, value |-> ppu.open_bus]

Ppu_write_register(ppu0, reg, value) ==
    LET ppu == [ppu0 EXCEPT !.open_bus = value]
    IN  CASE reg = 0 ->
                [ppu EXCEPT !.ctrl = value,
                            !.nmi_output = (Bit(value, 7) = 1),
                            !.t = SetField(ppu.t, 10, 2, value % 4)]
          [] reg = 1 -> [ppu EXCEPT !.mask = value]
          [] reg = 3 -> [ppu EXCEPT !.oam_addr = value]
          [] reg = 4 ->
                [Ppu_write_oam_byte(ppu, ppu.oam_addr, value)
                    EXCEPT !.oam_addr = Wrap8(ppu.oam_addr + 1)]
          [] reg = 5 ->
                IF ~ppu.w
                THEN [ppu EXCEPT !.t = SetField(ppu.t, 0, 5, value \div 8),
                                 !.x = value % 8,
                                 !.w = TRUE]
                ELSE [ppu EXCEPT !.t = SetField(SetField(ppu.t, 12, 3, value % 8),
                                                5, 5, value \div 8),
                                 !.w = FALSE]
          [] reg = 6 ->
                IF ~ppu.w
                THEN [ppu EXCEPT !.t = SetField(ppu.t, 8, 7, value % 64),
                                 !.w = TRUE]
                ELSE [ppu EXCEPT !.t = SetField(ppu.t, 0, 8, value),
                                 !.v = SetField(ppu.t, 0, 8, value),
                                 !.w = FALSE]
          [] reg = 7 ->
                LET addr == ppu.v % \h4000
                    next == Wrap16(ppu.v + Ppu_addr_increment(ppu))
                IN  IF addr >= \h3F00
                    THEN [ppu EXCEPT !.palette = Put(ppu.palette, Ppu_palette_addr(addr), value),
                                     !.v = next]
                    ELSE IF addr >= \h2000
                    THEN [ppu EXCEPT !.vram = Put(ppu.vram, Ppu_mirror_address(addr), value),
                                     !.v = next]
                    ELSE [ppu EXCEPT !.v = next]
          [] OTHER -> ppu

\* Ppu::read_byte: the PPU's own view of its address space
Ppu_read_byte(ppu, addr, cart) ==
    IF addr < \h2000 THEN Cartridge_read_chr(cart, addr)
    ELSE IF addr < \h3F00 THEN Get(ppu.vram, Ppu_mirror_address(addr))
    ELSE IF addr < \h4000
        THEN Ppu_palette_mask(ppu, Get(ppu.palette, Ppu_palette_addr(addr)))
    ELSE 0

---------------------------------------------------------------------------
(* Ppu: the per-dot pipeline.                                              *)

Ppu_increment_x(ppu) ==
    IF ppu.v % 32 = 31
    THEN [ppu EXCEPT !.v = FlipBit(SetField(ppu.v, 0, 5, 0), 10)]
    ELSE [ppu EXCEPT !.v = ppu.v + 1]

Ppu_increment_y(ppu) ==
    IF Field(ppu.v, 12, 3) # 7
    THEN [ppu EXCEPT !.v = ppu.v + \h1000]
    ELSE LET v1 == SetField(ppu.v, 12, 3, 0)
             y == Field(v1, 5, 5)
         IN  IF y = 29 THEN [ppu EXCEPT !.v = SetField(FlipBit(v1, 11), 5, 5, 0)]
             ELSE IF y = 31 THEN [ppu EXCEPT !.v = SetField(v1, 5, 5, 0)]
             ELSE [ppu EXCEPT !.v = SetField(v1, 5, 5, y + 1)]

Ppu_load_background_shifters(ppu) ==
    [ppu EXCEPT
        !.bg_shift_pattern_lo = SetField(ppu.bg_shift_pattern_lo, 0, 8, ppu.bg_next_tile_lsb),
        !.bg_shift_pattern_hi = SetField(ppu.bg_shift_pattern_hi, 0, 8, ppu.bg_next_tile_msb),
        !.bg_shift_attrib_lo = SetField(ppu.bg_shift_attrib_lo, 0, 8,
                                   IF Bit(ppu.bg_next_tile_attrib, 0) = 1 THEN \hFF ELSE 0),
        !.bg_shift_attrib_hi = SetField(ppu.bg_shift_attrib_hi, 0, 8,
                                   IF Bit(ppu.bg_next_tile_attrib, 1) = 1 THEN \hFF ELSE 0)]

Ppu_update_shifters(ppu) ==
    IF Bit(ppu.mask, 3) = 1
    THEN [ppu EXCEPT !.bg_shift_pattern_lo = Wrap16(ppu.bg_shift_pattern_lo * 2),
                     !.bg_shift_pattern_hi = Wrap16(ppu.bg_shift_pattern_hi * 2),
                     !.bg_shift_attrib_lo = Wrap16(ppu.bg_shift_attrib_lo * 2),
                     !.bg_shift_attrib_hi = Wrap16(ppu.bg_shift_attrib_hi * 2)]
    ELSE ppu

Ppu_fetch_nametable_byte(ppu, cart) ==
    Ppu_read_byte(ppu, \h2000 + (ppu.v % \h1000), cart)

Ppu_fetch_attribute_byte(ppu, cart) ==
    LET v == ppu.v
        addr == \h23C0 + (Field(v, 10, 2) * \h400) + (Field(v, 7, 3) * 8) + Field(v, 2, 3)
        shift == (Bit(v, 6) * 4) + (Bit(v, 1) * 2)
    IN  Field(Ppu_read_byte(ppu, addr, cart), shift, 2)

Ppu_fetch_pattern_byte(ppu, plane, cart) ==
    LET fine_y == Field(ppu.v, 12, 3)
        table == IF Bit(ppu.ctrl, 4) = 1 THEN \h1000 ELSE 0
    IN  Ppu_read_byte(ppu, table + (ppu.bg_next_tile_id * 16) + (plane * 8) + fine_y, cart)

\* render_pixel: of its effects only the sprite-0 hit flag is state.  The
\* background pixel comes from the pattern shifters at fine x; the pixel of
\* sprite slot 0 from its pattern bytes when the slot covers column x.
Ppu_render_pixel(ppu) ==
    LET x == ppu.cycle - 1
        bg_pixel ==
            IF Bit(ppu.mask, 3) = 1
            THEN (Bit(ppu.bg_shift_pattern_hi, 15 - ppu.x) * 2)
                 + Bit(ppu.bg_shift_pattern_lo, 15 - ppu.x)
            ELSE 0
        x_diff == x - ppu.sprite_positions[0]
        bit == IF Bit(ppu.sprite_attributes[0], 6) = 1 THEN x_diff ELSE 7 - x_diff
        pixel == IF x_diff >= 0 /\ x_diff < 8
                 THEN (Bit(ppu.sprite_patterns_hi[0], bit) * 2)
                      + Bit(ppu.sprite_patterns_lo[0], bit)
                 ELSE 0
        sprite_zero_hit ==
            /\ Bit(ppu.mask, 4) = 1
            /\ ppu.sprite_count > 0
            /\ pixel # 0
            /\ ppu.sprite_indexes[0] = 0
            /\ bg_pixel # 0
    IN  IF x < 256 /\ ppu.scanline < 240 /\ sprite_zero_hit /\ x < 255
        THEN [ppu EXCEPT !.status = SetBit(ppu.status, 6),
                         !.probe.hit = << [scanline |-> ppu.scanline, dot |-> ppu.cycle,
                                           bg_pixel |-> bg_pixel, pixel |-> pixel,
                                           index |-> ppu.sprite_indexes[0]] >>]
        ELSE ppu

Ppu_in_range(ppu, scanline, y) ==
    scanline - y >= 0 /\ scanline - y < (IF Bit(ppu.ctrl, 5) = 1 THEN 16 ELSE 8)

\* the first loop of sprite evaluation: the OAM entries it copies, in OAM
\* order (at most 8), and the entry n it stops at
Ppu_select_sprites(ppu, scanline) ==
    LET S == {n \in 0..63 : Ppu_in_range(ppu, scanline, Get(ppu.oam, n * 4))}
        pick(cnt) ==
            LET stop(sel) == [sel |-> sel, n |-> IF cnt = 8 THEN sel[8] + 1 ELSE 64]
            IN  stop([i \in 1..cnt |->
                        CHOOSE n \in S : Cardinality({m \in S : m < n}) = i - 1])
    IN  pick(IF Cardinality(S) < 8 THEN Cardinality(S) ELSE 8)

\* the sprite slots after the first loop found r; `secondary` is the secondary
\* OAM the copies land in; `overflow` is the result of the overflow search
Ppu_load_slots(ppu, r, secondary, overflow) ==
    LET cnt == Len(r.sel)
    IN  [ppu EXCEPT
            !.sprite_count = cnt,
            !.sprite_patterns_lo = [i \in 0..7 |-> 0],
            !.sprite_patterns_hi = [i \in 0..7 |-> 0],
            !.sprite_positions =
                [i \in 0..7 |-> IF i < cnt THEN Get(ppu.oam, r.sel[i + 1] * 4 + 3) ELSE \hFF],
            !.sprite_indexes = [i \in 0..7 |-> IF i < cnt THEN r.sel[i + 1] ELSE \hFF],
            !.sprite_attributes =
                [i \in 0..7 |-> IF i < cnt THEN Get(ppu.oam, r.sel[i + 1] * 4 + 2) ELSE 0],
            !.secondary_oam =
                [j \in 0..31 |-> IF j \div 4 < cnt
                                 THEN Get(ppu.oam, r.sel[(j \div 4) + 1] * 4 + (j % 4))
                                 ELSE secondary[j]],
            !.status = IF cnt = 8 /\ r.n < 64 /\ overflow
                       THEN SetBit(ppu.status, 5) ELSE ppu.status]

\* Ppu::evaluate_sprites; its overflow search steps through every OAM byte
\* from entry n on
Ppu_evaluate_sprites(ppu, scanline) ==
    LET load(r) ==
            Ppu_load_slots(ppu, r, [j \in 0..31 |-> \hFF],
                \E j \in (r.n * 4)..255 : Ppu_in_range(ppu, scanline, Get(ppu.oam, j)))
    IN  Then(Ppu_select_sprites(ppu, scanline), load)

\* optimized::evaluate_sprites_fast: the secondary OAM is not cleared, the
\* overflow search looks at the y byte of every entry from n on
Ppu_evaluate_sprites_fast(ppu, scanline) ==
    LET load(r) ==
            Ppu_load_slots(ppu, r, ppu.secondary_oam,
                \E n \in r.n..63 : Ppu_in_range(ppu, scanline, Get(ppu.oam, n * 4)))
    IN  Then(Ppu_select_sprites(ppu, scanline), load)

\* fetch_sprite_data: the pattern byte of slot (cycle - 257) / 8, plane 0 at
\* the fifth cycle of the slot and plane 1 at the seventh (u16 arithmetic,
\* wrapping as in a release build)
Ppu_fetch_sprite_data(ppu, cart) ==
    LET idx == (ppu.cycle - 257) \div 8
        cif == (ppu.cycle - 257) % 8
        tile == ppu.secondary_oam[idx * 4 + 1]
        h == IF Bit(ppu.ctrl, 5) = 1 THEN 16 ELSE 8
        y_in_tile == Wrap16(ppu.scanline - ppu.secondary_oam[idx * 4] + 65536)
        addr(y_offset) ==
            BitOr(BitOr(IF h = 8
                        THEN (IF Bit(ppu.ctrl, 3) = 1 THEN \h1000 ELSE 0) + (tile * 16)
                        ELSE ((tile % 2) * \h1000)
                             + (((tile - (tile % 2)) + (IF y_offset >= 8 THEN 1 ELSE 0)) * 16),
                        IF h = 16 /\ y_offset >= 8 THEN y_offset - 8 ELSE y_offset),
                  IF cif = 6 THEN 8 ELSE 0)
        store(byte) ==
            IF cif = 4 THEN [ppu EXCEPT !.sprite_patterns_lo[idx] = byte]
                       ELSE [ppu EXCEPT !.sprite_patterns_hi[idx] = byte]
    IN  IF ppu.cycle >= 257 /\ ppu.cycle < 321 /\ idx < ppu.sprite_count /\ cif \in {4, 6}
        THEN store(Ppu_read_byte(ppu,
                 addr(IF Bit(ppu.secondary_oam[idx * 4 + 2], 7) = 1
                      THEN Wrap16((h - 1) - y_in_tile + 65536) ELSE y_in_tile),
                 cart))
        ELSE ppu

\* the visible-scanline branch of Ppu::step
Ppu_step_visible(ppu, cart) ==
    LET first(p) == IF p.scanline = 0 /\ p.cycle = 0 THEN [p EXCEPT !.cycle = 1] ELSE p
        pixel(p) == IF p.cycle >= 1 /\ p.cycle <= 256 THEN Ppu_render_pixel(p) ELSE p
        tile(s) ==
            LET id(l) == [l EXCEPT !.bg_next_tile_id = Ppu_fetch_nametable_byte(l, cart)]
                k == (s.cycle - 1) % 8
            IN  CASE k = 0 -> id(Ppu_load_background_shifters(s))
                  [] k = 2 -> [s EXCEPT !.bg_next_tile_attrib = Ppu_fetch_attribute_byte(s, cart)]
                  [] k = 4 -> [s EXCEPT !.bg_next_tile_lsb = Ppu_fetch_pattern_byte(s, 0, cart)]
                  [] k = 6 -> [s EXCEPT !.bg_next_tile_msb = Ppu_fetch_pattern_byte(s, 1, cart)]
                  [] k = 7 -> Ppu_increment_x(s)
                  [] OTHER -> s
        fetch(p) == IF (p.cycle >= 1 /\ p.cycle <= 256) \/ (p.cycle >= 321 /\ p.cycle <= 336)
                    THEN Then(Ppu_update_shifters(p), tile) ELSE p
        row(p) == IF p.cycle = 256 THEN Ppu_increment_y(p) ELSE p
        evaluate(h) ==
            IF h.scanline >= -1 /\ h.scanline < 239
            THEN IF Ppu_is_rendering(h)
                 THEN Ppu_evaluate_sprites_fast(h, h.scanline + 1)
                 ELSE Ppu_evaluate_sprites(h, h.scanline + 1)
            ELSE h
        copy_x(l) ==
            IF Bit(l.mask, 3) = 1
            THEN [l EXCEPT !.v = SetField(SetField(l.v, 0, 5, Field(l.t, 0, 5)),
                                          10, 1, Bit(l.t, 10))]
            ELSE l
        reload(p) == IF p.cycle = 257
                     THEN Then(copy_x(Ppu_load_background_shifters(p)), evaluate) ELSE p
        sprites(p) == IF p.cycle >= 257 /\ p.cycle <= 320
                      THEN Ppu_fetch_sprite_data(p, cart) ELSE p
    IN  Then(pixel(first(ppu)),
             LAMBDA q : Then(row(fetch(q)), LAMBDA p : sprites(reload(p))))

\* Ppu::step: one dot; the result carries the NMI line the call returns
Ppu_step(ppu, cart) ==
    LET visible(p) == IF p.scanline >= 0 /\ p.scanline < 240
                      THEN Ppu_step_visible(p, cart) ELSE p
        vblank(p) ==
            IF p.scanline = 241 /\ p.cycle = 1
            THEN IF ~p.suppress_vbl
                 THEN [p EXCEPT !.status = SetBit(p.status, 7),
                                !.nmi_occurred = TRUE,
                                !.probe.vbl_tick = p.probe.ticks + 1,
                                !.probe.vbl_gap =
                                    IF p.probe.vbl_tick = 0 THEN 0
                                    ELSE (p.probe.ticks + 1) - p.probe.vbl_tick,
                                !.probe.gap_skip = p.probe.skip,
                                !.probe.skip = FALSE,
                                !.probe.vbl_sets = p.probe.vbl_sets + 1]
                 ELSE [p EXCEPT !.suppress_vbl = FALSE]
            ELSE p
        clear(p) == IF p.scanline = 261 /\ p.cycle = 1
                    THEN [p EXCEPT !.status = p.status % 32] ELSE p
        copy_y(p) ==
            IF p.scanline = 261 /\ p.cycle >= 280 /\ p.cycle <= 304 /\ Ppu_is_rendering(p)
            THEN [p EXCEPT !.v = SetField(SetField(p.v, 5, 5, Field(p.t, 5, 5)),
                                          11, 4, Field(p.t, 11, 4))]
            ELSE p
        skip(p) ==
            IF p.scanline = 261 /\ p.cycle = 339 /\ p.odd_frame /\ Ppu_is_rendering(p)
            THEN [p EXCEPT !.cycle = 340, !.probe.skip = TRUE]
            ELSE p
        advance(p) ==
            [ppu |-> IF p.cycle + 1 > 340
                     THEN IF p.scanline + 1 > 261
                          THEN [p EXCEPT !.cycle = 0, !.scanline = -1,
                                         !.frame = p.frame + 1,
                                         !.odd_frame = ~p.odd_frame,
                                         !.probe.ticks = p.probe.ticks + 1]
                          ELSE [p EXCEPT !.cycle = 0, !.scanline = p.scanline + 1,
                                         !.probe.ticks = p.probe.ticks + 1]
                     ELSE [p EXCEPT !.cycle = p.cycle + 1,
                                    !.probe.ticks = p.probe.ticks + 1],
             nmi |-> p.nmi_occurred /\ p.nmi_output]
    IN  Then(visible(ppu), LAMBDA p : advance(skip(copy_y(clear(vblank(p))))))

---------------------------------------------------------------------------
(* Apu: the frame sequencer.  The channels (timers, envelopes, sweep, the   *)
(* noise register, the DMC) never feed back into the sequencer, the Cpu or  *)
(* the Ppu; this record is the Apu without them.                            *)

Apu_new ==
    [ frame_mode |-> FALSE, frame_irq |-> FALSE, frame_irq_inhibit |-> FALSE,
      cycles |-> 0, frame_cycles |-> 0,
      \* the calls of clock_quarter_frame and clock_half_frame so far
      probe |-> [quarter |-> 0, half |-> 0] ]

\* Apu::read_register($4015) with silent channels: bit 6 is the frame IRQ
Apu_read_register(apu, addr) ==
    IF addr = \h4015 /\ apu.frame_irq THEN \h40 ELSE 0

Apu_write_register(apu, addr, value) ==
    IF addr = \h4017
    THEN [apu EXCEPT !.frame_mode = Bit(value, 7) = 1,
                     !.frame_irq = Bit(value, 6) = 0]
    ELSE apu

Apu_step(apu) ==
    LET fc == apu.frame_cycles + 1
        last == fc = (IF apu.frame_mode THEN 37281 ELSE 29829)
        quarter == fc \in {7457, 14913, 22371} \/ last
        half == fc = 14913 \/ last
    IN  [apu EXCEPT
            !.cycles = apu.cycles + 1,
            !.frame_cycles = IF last THEN 0 ELSE fc,
            !.frame_irq = IF ~apu.frame_mode /\ last /\ ~apu.frame_irq_inhibit
                          THEN TRUE ELSE apu.frame_irq,
            !.probe = [quarter |-> apu.probe.quarter + (IF quarter THEN 1 ELSE 0),
                       half |-> apu.probe.half + (IF half THEN 1 ELSE 0)]]

---------------------------------------------------------------------------
(* Bus.  An Option is a sequence of length 0 (None) or 1 (Some).            *)

Bus_new(ppu, apu) ==
    [ ram |-> Empty, ppu |-> ppu, apu |-> apu, cartridge |-> <<>>,
      controller1 |-> 0, controller2 |-> 0,
      controller1_state |-> 0, controller2_state |-> 0,
      controller_strobe |-> FALSE,
      oam_dma_page |-> <<>>, oam_dma_cycle |-> 0 ]

\* <Bus as CpuBus>::read
Bus_read(bus, addr) ==
    LET ppu_read(r) == [bus |-> [bus EXCEPT !.ppu = r.ppu], value |-> r.value]
        shift1(c) == [bus |-> [bus EXCEPT !.controller1 = (c \div 2) + 128], value |-> c % 2]
        shift2(c) == [bus |-> [bus EXCEPT !.controller2 = (c \div 2) + 128], value |-> c % 2]
    IN  IF addr < \h2000 THEN [bus |-> bus, value |-> Get(bus.ram, addr % \h800)]
        ELSE IF addr < \h4000 THEN ppu_read(Ppu_read_register(bus.ppu, addr % 8))
        ELSE IF addr <= \h4015
            THEN [bus |-> bus, value |-> Apu_read_register(bus.apu, addr)]
        ELSE IF addr = \h4016
            THEN shift1(IF bus.controller_strobe THEN bus.controller1_state ELSE bus.controller1)
        ELSE IF addr = \h4017
            THEN shift2(IF bus.controller_strobe THEN bus.controller2_state ELSE bus.controller2)
        ELSE IF addr < \h4020 THEN [bus |-> bus, value |-> 0]
        ELSE [bus |-> bus,
              value |-> IF bus.cartridge # <<>>
                        THEN Cartridge_read_prg(bus.cartridge[1], addr) ELSE 0]

\* a write whose strobe does not load the shift registers
Bus_write_no_latch(bus, addr, value) ==
    IF addr < \h2000 THEN [bus EXCEPT !.ram = Put(bus.ram, addr % \h800, value)]
    ELSE IF addr < \h4000
        THEN [bus EXCEPT !.ppu = Ppu_write_register(bus.ppu, addr % 8, value)]
    ELSE IF addr = \h4014
        THEN [bus EXCEPT !.oam_dma_page = <<value>>, !.oam_dma_cycle = 0]
    ELSE IF addr = \h4016
        THEN IF value % 2 = 1
             THEN [bus EXCEPT !.controller_strobe = TRUE]
             ELSE [bus EXCEPT !.controller_strobe = FALSE]
    ELSE IF addr <= \h4017
        THEN [bus EXCEPT !.apu = Apu_write_register(bus.apu, addr, value)]
    ELSE IF addr >= \h4020 /\ bus.cartridge # <<>>
        THEN [bus EXCEPT !.cartridge = << Cartridge_write_prg(bus.cartridge[1], addr, value) >>]
    ELSE bus

\* <Bus as CpuBus>::write
Bus_write(bus, addr, value) ==
    IF addr < \h2000 THEN [bus EXCEPT !.ram = Put(bus.ram, addr % \h800, value)]
    ELSE IF addr < \h4000
        THEN [bus EXCEPT !.ppu = Ppu_write_register(bus.ppu, addr % 8, value)]
    ELSE IF addr = \h4014
        THEN [bus EXCEPT !.oam_dma_page = <<value>>, !.oam_dma_cycle = 0]
    ELSE IF addr = \h4016
        THEN IF value % 2 = 1
             THEN [bus EXCEPT !.controller_strobe = TRUE,
                              !.controller1 = bus.controller1_state,
                              !.controller2 = bus.controller2_state]
             ELSE [bus EXCEPT !.controller_strobe = FALSE]
    ELSE IF addr <= \h4017
        THEN [bus EXCEPT !.apu = Apu_write_register(bus.apu, addr, value)]
    ELSE IF addr >= \h4020 /\ bus.cartridge # <<>>
        THEN [bus EXCEPT !.cartridge = << Cartridge_write_prg(bus.cartridge[1], addr, value) >>]
    ELSE bus

---------------------------------------------------------------------------
(* Cpu.  The operations that touch memory work on s = [cpu, bus].           *)

Cpu_new ==
    [ a |-> 0, x |-> 0, y |-> 0, sp |-> \hFD, pc |-> 0, status |-> \h24,
      cycles |-> 0, stall_cycles |-> 0,
      nmi_pending |-> FALSE, irq_pending |-> FALSE,
      \* set when execute_instruction panics on an invalid opcode
      panicked |-> FALSE ]

\* bus.read / bus.write as the Cpu calls them
Rd(s, addr) ==
    LET wrap(r) == [s |-> [s EXCEPT !.bus = r.bus], value |-> r.value]
    IN  wrap(Bus_read(s.bus, addr))

Wr(s, addr, value) == [s EXCEPT !.bus = Bus_write(s.bus, addr, value)]

Cpu_push(s, value) ==
    LET dec(w) == [w EXCEPT !.cpu.sp = Wrap8(s.cpu.sp + 255)]
    IN  dec(Wr(s, \h100 + s.cpu.sp, value))

Cpu_push_word(s, value) == Cpu_push(Cpu_push(s, value \div 256), value % 256)

Cpu_pop(s) ==
    Rd([s EXCEPT !.cpu.sp = Wrap8(s.cpu.sp + 1)], \h100 + Wrap8(s.cpu.sp + 1))

Cpu_pop_word(s) ==
    LET high(lo) ==
            LET join(hi) == [s |-> hi.s, value |-> (hi.value * 256) + lo.value]
            IN  join(Cpu_pop(lo.s))
    IN  high(Cpu_pop(s))

Cpu_read_word(s, addr) ==
    LET high(lo) ==
            LET join(hi) == [s |-> hi.s, value |-> (hi.value * 256) + lo.value]
            IN  join(Rd(lo.s, Wrap16(addr + 1)))
    IN  high(Rd(s, addr))

Cpu_set_zn_flags(cpu, value) ==
    [cpu EXCEPT !.status = SetField(SetField(cpu.status, 1, 1, IF value = 0 THEN 1 ELSE 0),
                                    7, 1, Bit(value, 7))]

\* Cpu::stall is called by Bus::tick; its definition is not in the sources
Cpu_stall(cpu, n) == [cpu EXCEPT !.stall_cycles = cpu.stall_cycles + n]

Cpu_trigger_nmi(cpu) == [cpu EXCEPT !.nmi_pending = TRUE]

Cpu_trigger_irq(cpu) ==
    IF Bit(cpu.status, 2) = 0 THEN [cpu EXCEPT !.irq_pending = TRUE] ELSE cpu

\* OPCODE_TABLE, the entries the cartridges below execute
OPCODE_TABLE(opcode_byte) ==
    CASE opcode_byte = \h00 -> [instruction |-> "BRK", mode |-> "Implicit", cycles |-> 7]
      [] opcode_byte = \h10 -> [instruction |-> "BPL", mode |-> "Relative", cycles |-> 2]
      [] opcode_byte = \h28 -> [instruction |-> "PLP", mode |-> "Implicit", cycles |-> 4]
      [] opcode_byte = \h30 -> [instruction |-> "BMI", mode |-> "Relative", cycles |-> 2]
      [] opcode_byte = \h40 -> [instruction |-> "RTI", mode |-> "Implicit", cycles |-> 6]
      [] opcode_byte = \h48 -> [instruction |-> "PHA", mode |-> "Implicit", cycles |-> 3]
      [] opcode_byte = \h4C -> [instruction |-> "JMP", mode |-> "Absolute", cycles |-> 3]
      [] opcode_byte = \h50 -> [instruction |-> "BVC", mode |-> "Relative", cycles |-> 2]
      [] opcode_byte = \h58 -> [instruction |-> "CLI", mode |-> "Implicit", cycles |-> 2]
      [] opcode_byte = \h70 -> [instruction |-> "BVS", mode |-> "Relative", cycles |-> 2]
      [] opcode_byte = \h85 -> [instruction |-> "STA", mode |-> "ZeroPage", cycles |-> 3]
      [] opcode_byte = \h8D -> [instruction |-> "STA", mode |-> "Absolute", cycles |-> 4]
      [] opcode_byte = \h90 -> [instruction |-> "BCC", mode |-> "Relative", cycles |-> 2]
      [] opcode_byte = \hA2 -> [instruction |-> "LDX", mode |-> "Immediate", cycles |-> 2]
      [] opcode_byte = \hA5 -> [instruction |-> "LDA", mode |-> "ZeroPage", cycles |-> 3]
      [] opcode_byte = \hA9 -> [instruction |-> "LDA", mode |-> "Immediate", cycles |-> 2]
      [] opcode_byte = \hAD -> [instruction |-> "LDA", mode |-> "Absolute", cycles |-> 4]
      [] opcode_byte = \hB0 -> [instruction |-> "BCS", mode |-> "Relative", cycles |-> 2]
      [] opcode_byte = \hD0 -> [instruction |-> "BNE", mode |-> "Relative", cycles |-> 2]
      [] opcode_byte = \hE6 -> [instruction |-> "INC", mode |-> "ZeroPage", cycles |-> 5]
      [] opcode_byte = \hE8 -> [instruction |-> "INX", mode |-> "Implicit", cycles |-> 2]
      [] opcode_byte = \hEA -> [instruction |-> "NOP", mode |-> "Implicit", cycles |-> 2]
      [] opcode_byte = \hF0 -> [instruction |-> "BEQ", mode |-> "Relative", cycles |-> 2]
      [] opcode_byte = \hFE -> [instruction |-> "INC", mode |-> "AbsoluteX", cycles |-> 7]
      [] OTHER -> [instruction |-> "None", mode |-> "Implicit", cycles |-> 0]

\* Cpu::get_operand_address
Cpu_get_operand_address(s, mode) ==
    LET pc == s.cpu.pc
        zero(r) == [s |-> [r.s EXCEPT !.cpu.pc = Wrap16(pc + 1)],
                    addr |-> r.value, page_crossed |-> FALSE]
        abs(lo) ==
            LET index(hi) ==
                    LET base == (hi.value * 256) + lo.value
                        addr == IF mode = "AbsoluteX" THEN Wrap16(base + s.cpu.x) ELSE base
                    IN  [s |-> [hi.s EXCEPT !.cpu.pc = Wrap16(pc + 2)],
                         addr |-> addr, page_crossed |-> (base \div 256) # (addr \div 256)]
            IN  index(Rd(lo.s, Wrap16(pc + 1)))
    IN  CASE mode = "Immediate" ->
               [s |-> [s EXCEPT !.cpu.pc = Wrap16(pc + 1)], addr |-> pc, page_crossed |-> FALSE]
          [] mode = "ZeroPage" -> zero(Rd(s, pc))
          [] mode \in {"Absolute", "AbsoluteX"} -> abs(Rd(s, pc))
          [] OTHER -> [s |-> s, addr |-> 0, page_crossed |-> FALSE]

\* Cpu::branch
Cpu_branch(cpu, condition, offset) ==
    LET pc == Wrap16(cpu.pc + Signed8(offset) + 65536)
    IN  IF condition
        THEN [cpu EXCEPT !.pc = pc,
                         !.cycles = cpu.cycles + (IF (cpu.pc \div 256) # (pc \div 256) THEN 2 ELSE 1)]
        ELSE cpu

\* bcc .. bvs: the offset is read at pc - 1, after step has moved pc past the opcode
Cpu_bxx(s, instruction) ==
    LET flag == CASE instruction \in {"BCC", "BCS"} -> 0
                  [] instruction \in {"BNE", "BEQ"} -> 1
                  [] instruction \in {"BVC", "BVS"} -> 6
                  [] instruction \in {"BPL", "BMI"} -> 7
        on == IF instruction \in {"BCS", "BEQ", "BVS", "BMI"} THEN 1 ELSE 0
        go(r) == [r.s EXCEPT !.cpu = Cpu_branch(r.s.cpu, Bit(r.s.cpu.status, flag) = on, r.value)]
    IN  go(Rd(s, Wrap16(s.cpu.pc + 65535)))

\* Cpu::plp
Cpu_plp(s) ==
    LET set(r) == [r.s EXCEPT !.cpu.status = ClearBit(SetBit(r.value, 5), 4)]
    IN  set(Cpu_pop(s))

\* the sequence brk and handle_interrupts share: push pc, push the status
\* with B as given, set I, load pc from the vector
Cpu_interrupt(s, b, vector) ==
    LET jump(w) == [w.s EXCEPT !.cpu.pc = w.value]
        load(s3) == jump(Cpu_read_word([s3 EXCEPT !.cpu.status = SetBit(s3.cpu.status, 2)],
                                       vector))
        flags(s2) == load(Cpu_push(s2, SetField(SetBit(s2.cpu.status, 5), 4, 1, b)))
    IN  flags(Cpu_push_word(s, s.cpu.pc))

\* Cpu::brk
Cpu_brk(s) == Cpu_interrupt([s EXCEPT !.cpu.pc = Wrap16(s.cpu.pc + 1)], 1, \hFFFE)

\* Cpu::execute_instruction with the instruction bodies of instructions.rs
Cpu_execute_instruction(s, opcode_byte) ==
    LET exec(opcode) ==
            LET i == opcode.instruction
                s0 == [s EXCEPT !.cpu.cycles = s.cpu.cycles + opcode.cycles]
                cross(o, c) == IF o.page_crossed THEN [c EXCEPT !.cycles = c.cycles + 1] ELSE c
                load(o, r) ==
                    [r.s EXCEPT !.cpu = cross(o, Cpu_set_zn_flags(
                        IF i = "LDA" THEN [r.s.cpu EXCEPT !.a = r.value]
                                     ELSE [r.s.cpu EXCEPT !.x = r.value], r.value))]
                flag(w, value) == [w EXCEPT !.cpu = Cpu_set_zn_flags(w.cpu, value)]
                inc(o, r) == flag(Wr(r.s, o.addr, Wrap8(r.value + 1)), Wrap8(r.value + 1))
                operand(o) ==
                    CASE i \in {"LDA", "LDX"} -> load(o, Rd(o.s, o.addr))
                      [] i = "STA" -> Wr(o.s, o.addr, o.s.cpu.a)
                      [] i = "INC" -> inc(o, Rd(o.s, o.addr))
                      [] i = "JMP" -> [o.s EXCEPT !.cpu.pc = o.addr]
                rti(r) == [r.s EXCEPT !.cpu.pc = r.value]
            IN  CASE i = "None" -> [s EXCEPT !.cpu.panicked = TRUE]
                  [] i \in {"LDA", "LDX", "STA", "INC", "JMP"} ->
                       operand(Cpu_get_operand_address(s0, opcode.mode))
                  [] i = "INX" ->
                       [s0 EXCEPT !.cpu = Cpu_set_zn_flags([s0.cpu EXCEPT !.x = Wrap8(s0.cpu.x + 1)],
                                                           Wrap8(s0.cpu.x + 1))]
                  [] i = "PHA" -> Cpu_push(s0, s0.cpu.a)
                  [] i = "PLP" -> Cpu_plp(s0)
                  [] i = "RTI" -> rti(Cpu_pop_word(Cpu_plp(s0)))
                  [] i = "BRK" -> Cpu_brk(s0)
                  [] i = "NOP" -> s0
                  [] i = "CLI" -> [s0 EXCEPT !.cpu.status = ClearBit(s0.cpu.status, 2)]
                  [] OTHER -> Cpu_bxx(s0, i)
    IN  exec(OPCODE_TABLE(opcode_byte))

\* Cpu::handle_interrupts
\* handle_interrupts with one latch for both lines: taking the NMI clears
\* the pending IRQ as well
Cpu_handle_interrupts_one_latch(s) ==
    LET cost(e) == [e EXCEPT !.cpu.cycles = e.cpu.cycles + 7]
        clear == [s EXCEPT !.cpu.nmi_pending = FALSE, !.cpu.irq_pending = FALSE]
    IN  IF s.cpu.nmi_pending THEN cost(Cpu_interrupt(clear, 0, \hFFFA))
        ELSE IF s.cpu.irq_pending /\ Bit(s.cpu.status, 2) = 0
            THEN cost(Cpu_interrupt(clear, 0, \hFFFE))
        ELSE s

Cpu_handle_interrupts(s) ==
    LET nmi == s.cpu.nmi_pending
        cost(e) == [e EXCEPT !.cpu.cycles = e.cpu.cycles + 7]
    IN  IF nmi \/ (s.cpu.irq_pending /\ Bit(s.cpu.status, 2) = 0)
        THEN cost(Cpu_interrupt(IF nmi THEN [s EXCEPT !.cpu.nmi_pending = FALSE]
                                       ELSE [s EXCEPT !.cpu.irq_pending = FALSE],
                                0, IF nmi THEN \hFFFA ELSE \hFFFE))
        ELSE s

\* Cpu::step: the machine after the call and the cycle count it returns
Cpu_step(s) ==
    LET done(start_cycles, e) == [s |-> e, cycles |-> e.cpu.cycles - start_cycles]
        execute(f) ==
            done(f.s.cpu.cycles,
                 Cpu_execute_instruction([f.s EXCEPT !.cpu.pc = Wrap16(f.s.cpu.pc + 1)], f.value))
        fetch(h) == Then(Rd(h, h.cpu.pc), execute)
    IN  IF s.cpu.stall_cycles > 0
        THEN [s |-> [s EXCEPT !.cpu.stall_cycles = s.cpu.stall_cycles - 1], cycles |-> 1]
        ELSE Then(Cpu_handle_interrupts(s), fetch)

\* Cpu::reset
\* a reset that pulls the stack pointer down by three instead of setting it
Cpu_reset_sp(s) ==
    LET set(w) == [w.s EXCEPT !.cpu = [Cpu_new EXCEPT !.pc = w.value,
                                                      !.sp = Wrap8(s.cpu.sp - 3)]]
    IN  set(Cpu_read_word(s, \hFFFC))

Cpu_reset(s) ==
    LET set(w) == [w.s EXCEPT !.cpu = [Cpu_new EXCEPT !.pc = w.value]]
    IN  set(Cpu_read_word(s, \hFFFC))

\* Bus::tick: one CPU cycle of the rest of the machine
Bus_tick(s) ==
    LET copy(c, r) == [r.bus EXCEPT !.ppu = Ppu_write_oam_byte(r.bus.ppu, c \div 2, r.value),
                                    !.oam_dma_cycle = c + 1]
        transfer(bus, c) ==
            IF c < 512
            THEN IF c % 2 = 0
                 THEN copy(c, Bus_read(bus, (bus.oam_dma_page[1] * 256) + (c \div 2)))
                 ELSE [bus EXCEPT !.oam_dma_cycle = c + 1]
            ELSE [bus EXCEPT !.oam_dma_page = <<>>, !.oam_dma_cycle = 0]
        dma(m) == IF m.bus.oam_dma_page # <<>>
                  THEN [cpu |-> Cpu_stall(m.cpu, 1), bus |-> transfer(m.bus, m.bus.oam_dma_cycle)]
                  ELSE m
        dot(cart, acc) ==
            LET or(d) == [ppu |-> d.ppu, nmi |-> acc.nmi \/ d.nmi]
            IN  Then(Ppu_step(acc.ppu, cart), or)
        dots(m, t) == [cpu |-> IF t.nmi THEN Cpu_trigger_nmi(m.cpu) ELSE m.cpu,
                       bus |-> [m.bus EXCEPT !.ppu = t.ppu, !.apu = Apu_step(m.bus.apu)]]
        ppu(m) == IF m.bus.cartridge # <<>>
                  THEN Then(dot(m.bus.cartridge[1], [ppu |-> m.bus.ppu, nmi |-> FALSE]),
                         LAMBDA a : Then(dot(m.bus.cartridge[1], a),
                         LAMBDA b : Then(dot(m.bus.cartridge[1], b),
                         LAMBDA c : dots(m, c))))
                  ELSE dots(m, [ppu |-> m.bus.ppu, nmi |-> FALSE])
    IN  Then(dma(s), ppu)

---------------------------------------------------------------------------
(* Nes: the console.                                                       *)

Nes_new ==
    [ cpu |-> Cpu_new, bus |-> Bus_new(Ppu_new, Apu_new),
      clock |-> [cpu_cycles |-> 0, ppu_cycles |-> 0, apu_cycles |-> 0] ]

Nes_reset(n) ==
    LET zero(r) == [cpu |-> r.cpu, bus |-> r.bus,
                    clock |-> [cpu_cycles |-> 0, ppu_cycles |-> 0, apu_cycles |-> 0]]
    IN  zero(Cpu_reset([cpu |-> n.cpu, bus |-> n.bus]))

Nes_load_cartridge(n, cart) == Nes_reset([n EXCEPT !.bus.cartridge = <<cart>>])

\* a loop that ticks the bus once for an instruction, whatever its length
Nes_ticks_once(s, k) == IF k = 0 THEN s ELSE Bus_tick(s)

\* the loop of Nes::step: k calls of Bus::tick
RECURSIVE Nes_ticks(_, _)
Nes_ticks(s, k) == IF k = 0 THEN s ELSE Then(Bus_tick(s), LAMBDA t : Nes_ticks(t, k - 1))

Nes_step(n) ==
    LET clock(cycles) == [cpu_cycles |-> n.clock.cpu_cycles + cycles,
                          ppu_cycles |-> n.clock.ppu_cycles + (3 * cycles),
                          apu_cycles |-> n.clock.apu_cycles + cycles]
        tick(cycles, t) == [cpu |-> t.cpu, bus |-> t.bus, clock |-> clock(cycles)]
        run(r) == tick(r.cycles, Nes_ticks(r.s, r.cycles))
    IN  Then(Cpu_step([cpu |-> n.cpu, bus |-> n.bus]), run)

\* the cycle budget of Nes::run_frame
FrameBudget == 29780

\* a run_frame whose target forgets the cycles already run
Nes_run_frame_target_absolute(n) == FrameBudget

\* target_cycles of Nes::run_frame
Nes_run_frame_target(n) == n.clock.cpu_cycles + FrameBudget

---------------------------------------------------------------------------
(* Save states.  A SaveState is written with bincode: integers little-     *)
(* endian at their fixed width, a Vec<u8> as its u64 length and its bytes,  *)
(* an enum as its u32 variant index and its fields.                         *)

SAVE_STATE_VERSION == 2
SAVE_STATE_MAGIC == << 67, 67, 78, 83 >>

\* n as `width` little-endian bytes, and back; a value of 2^31 or more is
\* read as 2^31 - 1, where TLC's integers end: what matters of such a value
\* is that it exceeds every length
ToLE(n, width) == [i \in 1..width |-> IF i <= 4 THEN (n \div (256 ^ (i - 1))) % 256 ELSE 0]
FromLE(bytes) ==
    LET byte(i) == IF i <= Len(bytes) THEN bytes[i] * (256 ^ (i - 1)) ELSE 0
    IN  IF \E i \in 4..Len(bytes) : bytes[i] >= (IF i = 4 THEN 128 ELSE 1)
        THEN 2147483647
        ELSE byte(1) + byte(2) + byte(3) + byte(4)

\* <[u8]>::to_vec of a memory of len bytes, and the memory a slice fills
ToVec(mem, len) == [i \in 1..len |-> Get(mem, i - 1)]
FromVec(data) == [j \in {i \in 0..(Len(data) - 1) : data[i + 1] # 0} |-> data[j + 1]]

\* Bus::get_ram, Bus::set_ram, Bus::get_controller1_state,
\* Bus::get_controller2_state, Bus::set_controller_states
Bus_get_ram(bus) == ToVec(bus.ram, \h800)
Bus_set_ram(bus, data) == [bus EXCEPT !.ram = FromVec(data)]
Bus_get_controller1_state(bus) == bus.controller1_state
Bus_get_controller2_state(bus) == bus.controller2_state
Bus_set_controller_states(bus, c1, c2) ==
    [bus EXCEPT !.controller1_state = c1, !.controller2_state = c2]

\* Cartridge::get_mapper_state of an NROM cartridge: the variant Mapper0,
\* which has no fields; Cartridge::set_mapper_state changes nothing of it
Cartridge_get_mapper_state(cart) == [tag |-> 0, fields |-> << >>]
Cartridge_set_mapper_state(cart, state) == cart

\* SaveState::create_quick_save
SaveState_create_quick_save(cpu, bus) ==
    [ magic |-> SAVE_STATE_MAGIC, version |-> SAVE_STATE_VERSION,
      cpu_a |-> cpu.a, cpu_x |-> cpu.x, cpu_y |-> cpu.y, cpu_sp |-> cpu.sp,
      cpu_pc |-> cpu.pc, cpu_status |-> cpu.status, cpu_cycles |-> cpu.cycles,
      ppu_palette |-> ToVec(bus.ppu.palette, 32),
      ppu_oam |-> ToVec(bus.ppu.oam, 256),
      ram |-> Bus_get_ram(bus),
      mapper_number |-> IF bus.cartridge # << >> THEN 0 ELSE 255,
      mapper_state |-> IF bus.cartridge # << >>
                       THEN Cartridge_get_mapper_state(bus.cartridge[1])
                       ELSE [tag |-> 6, fields |-> << >>],
      mirroring |-> 0,
      controller1_state |-> Bus_get_controller1_state(bus),
      controller2_state |-> Bus_get_controller2_state(bus) ]

\* SaveState::save: bincode::serialize_into
SaveState_save(st) ==
    st.magic \o ToLE(st.version, 4)
      \o << st.cpu_a, st.cpu_x, st.cpu_y, st.cpu_sp >> \o ToLE(st.cpu_pc, 2)
      \o << st.cpu_status >> \o ToLE(st.cpu_cycles, 4)
      \o ToLE(Len(st.ppu_palette), 8) \o st.ppu_palette
      \o ToLE(Len(st.ppu_oam), 8) \o st.ppu_oam
      \o ToLE(Len(st.ram), 8) \o st.ram
      \o << st.mapper_number >> \o ToLE(st.mapper_state.tag, 4) \o st.mapper_state.fields
      \o ToLE(st.mirroring, 4)
      \o << st.controller1_state, st.controller2_state >>
\* the bytes the fields of the MapperState variant `tag` take at offset off
\* (counted from 0), or -1 when they do not deserialize
MapperState_fields_len(bytes, tag, off) ==
    LET bool(i) == i <= Len(bytes) /\ bytes[i] \in {0, 1}
        banks == FromLE(SubSeq(bytes, off + 4, off + 11))
    IN  CASE tag \in {0, 6} -> 0
          [] tag = 1 -> 7
          [] tag \in {2, 3} -> 1
          [] tag = 4 -> IF off + 11 <= Len(bytes) /\ bool(off + 2) /\ bool(off + 3)
                           /\ banks <= Len(bytes) /\ bool(off + 14 + banks)
                        THEN 14 + banks ELSE -1
          [] tag = 5 -> 9
          [] OTHER -> -1

\* SaveState::load: bincode::deserialize_from; None when the input ends
\* early or holds no variant of an enum
SaveState_load(bytes) ==
    LET n == Len(bytes)
        int(off, width) == FromLE(SubSeq(bytes, off + 1, off + width))
        vec(off) ==
            LET take(len) == IF len <= n - (off + 8)
                             THEN [ok |-> TRUE, data |-> SubSeq(bytes, off + 9, off + 8 + len),
                                   next |-> off + 8 + len]
                             ELSE [ok |-> FALSE, data |-> << >>, next |-> off]
            IN  IF off + 8 <= n THEN take(int(off, 8))
                ELSE [ok |-> FALSE, data |-> << >>, next |-> off]
        state(pal, oam, ram, tag, len) ==
            LET off == ram.next + 5 + len
            IN  IF len < 0 \/ off + 6 > n \/ int(off, 4) > 4 THEN << >>
                ELSE << [ magic |-> SubSeq(bytes, 1, 4), version |-> int(4, 4),
                          cpu_a |-> bytes[9], cpu_x |-> bytes[10], cpu_y |-> bytes[11],
                          cpu_sp |-> bytes[12], cpu_pc |-> int(12, 2),
                          cpu_status |-> bytes[15], cpu_cycles |-> int(15, 4),
                          ppu_palette |-> pal.data, ppu_oam |-> oam.data, ram |-> ram.data,
                          mapper_number |-> bytes[ram.next + 1],
                          mapper_state |-> [tag |-> tag,
                                            fields |-> SubSeq(bytes, ram.next + 6, off)],
                          mirroring |-> int(off, 4),
                          controller1_state |-> bytes[off + 5],
                          controller2_state |-> bytes[off + 6] ] >>
        mapper(pal, oam, ram) ==
            LET fields(tag) == state(pal, oam, ram, tag,
                                     MapperState_fields_len(bytes, tag, ram.next + 5))
            IN  IF ram.ok /\ ram.next + 5 <= n THEN fields(int(ram.next + 1, 4)) ELSE << >>
        third(pal, oam) == IF oam.ok THEN mapper(pal, oam, vec(oam.next)) ELSE << >>
        second(pal) == IF pal.ok THEN third(pal, vec(pal.next)) ELSE << >>
    IN  IF n < 19 THEN << >> ELSE second(vec(19))

\* SaveState::restore_quick_save: "Err" before anything is written when the
\* magic or the version is wrong; copy_from_slice panics when the lengths
\* differ, after the fields above it were written
SaveState_restore_quick_save(st, n) ==
    LET cpu == [n.cpu EXCEPT !.a = st.cpu_a, !.x = st.cpu_x, !.y = st.cpu_y,
                             !.sp = st.cpu_sp, !.pc = st.cpu_pc,
                             !.status = st.cpu_status, !.cycles = st.cpu_cycles]
        rest(bus) == Bus_set_controller_states(
                        [bus EXCEPT !.cartridge =
                            IF bus.cartridge # << >>
                            THEN << Cartridge_set_mapper_state(bus.cartridge[1], st.mapper_state) >>
                            ELSE bus.cartridge],
                        st.controller1_state, st.controller2_state)
    IN  IF st.magic # SAVE_STATE_MAGIC \/ st.version # SAVE_STATE_VERSION
        THEN [nes |-> n, result |-> "Err"]
        ELSE IF Len(st.ppu_palette) # 32
        THEN [nes |-> [n EXCEPT !.cpu = cpu], result |-> "Panic"]
        ELSE IF Len(st.ppu_oam) # 256
        THEN [nes |-> [n EXCEPT !.cpu = cpu, !.bus.ppu.palette = FromVec(st.ppu_palette)],
              result |-> "Panic"]
        ELSE IF Len(st.ram) # \h800
        THEN [nes |-> [n EXCEPT !.cpu = cpu, !.bus.ppu.palette = FromVec(st.ppu_palette),
                                !.bus.ppu.oam = FromVec(st.ppu_oam)],
              result |-> "Panic"]
        ELSE [nes |-> [n EXCEPT !.cpu = cpu,
                                !.bus = rest(Bus_set_ram(
                                    [n.bus EXCEPT !.ppu.palette = FromVec(st.ppu_palette),
                                                  !.ppu.oam = FromVec(st.ppu_oam)], st.ram))],
              result |-> "Ok"]

\* Nes::save_state_to_vec
Nes_save_state(n) == SaveState_save(SaveState_create_quick_save(n.cpu, n.bus))

\* Nes::load_state_from_slice
Nes_load_state(n, data) ==
    LET quick_load(st) == IF st = << >> THEN [nes |-> n, result |-> "Err"]
                          ELSE SaveState_restore_quick_save(st[1], n)
    IN  quick_load(SaveState_load(data))

---------------------------------------------------------------------------
(* The host: the program that owns the Nes and calls its public methods,   *)
(* and the observations made of each step.                                  *)

\* the most run_frame calls a host makes
MaxFrames == 2

\* the host presses reset only within this many cycles of power-on
ResetWindow == 24

\* the cartridge in the console
TheCart == nes.bus.cartridge[1]

Host_new(limit) ==
    [ pc |-> "idle",        \* "idle", or "run_frame" inside the loop of Nes::run_frame
      target |-> 0,         \* target_cycles of the run_frame in progress
      start |-> 0,          \* clock.cpu_cycles when it was called
      frames |-> 0,         \* run_frame calls completed
      reset |-> FALSE,      \* the host has pressed reset
      file |-> << >>,       \* the bytes save_state produced, once it was called
      twin |-> << >>,       \* the console as it was at that save_state, which
                            \* after a successful load_state is stepped along
      loaded |-> FALSE,     \* load_state has been called
      limit |-> limit ]     \* the host stops calling step at this clock.cpu_cycles

Obs_new ==
    [ steps |-> 0,          \* Nes::step calls since power-on
      nmis |-> 0,           \* NMIs serviced since run_frame was last called
      frame_len |-> 0,      \* clock.cpu_cycles the last completed run_frame advanced
      base |-> [ppu |-> 0, apu |-> 0],  \* Ppu dots and Apu ticks done before the last reset
      dma |-> [state |-> "none", k |-> 0, page |-> 0, at |-> 0, end |-> 0,
               stalled |-> 0, span |-> 0, own |-> 0],
      load |-> [kind |-> "none", result |-> "none", unchanged |-> TRUE],
      branch |-> <<>>,
      irq |-> [due |-> 0, serviced |-> 0, render_at |-> 0],
      \* the $4017 write of the run: the value, apu.cycles at the write, the
      \* frame IRQ flag before and after it, the quarter- and half-frame clocks
      \* it applied, the times the sequencer has since raised the flag and
      \* apu.cycles at the first of them, apu.cycles at the next quarter-frame
      frame |-> [written |-> FALSE, value |-> 0, at |-> 0, irq_before |-> FALSE,
                 irq_after |-> FALSE, quarter |-> 0, half |-> 0,
                 sets |-> 0, set_at |-> 0, next_quarter |-> 0],
      \* the writes the host made to the cartridge, each with the PRG byte
      \* that was at its address, and the host's read since the last of them
      \* of them; for an MMC1 the writes are counted and `claimed` is what
      \* the registers hold if every fifth write loads all five bits
      mem |-> [writes |-> <<>>, count |-> 0, read |-> <<>>,
               claimed |-> [bits |-> <<>>, control |-> \h0C, chr_bank0 |-> 0,
                            chr_bank1 |-> 0, prg_bank |-> 0]],
      \* the accesses the host made to PPU memory through PPUADDR and PPUDATA:
      \* their number, the last write, the read made since, and `claimed`,
      \* what PPU memory holds if CHR is RAM and the nametables are folded as
      \* the cartridge's mirroring says
      vmem |-> [count |-> 0, last |-> <<>>, read |-> <<>>, claimed |-> Empty],
      \* the controller port: "high" after a write of 1 to $4016, "low" after
      \* a write of 0 that follows it directly, "void" when a read came in
      \* between; controller1_state at the write of 1, the bits read since
      \* the write of 0, the reads made before the write of 1, all accesses
      pad |-> [phase |-> "idle", latched |-> 0, reads |-> <<>>, prior |-> 0, count |-> 0],
      \* the files given to Cartridge::from_ines, the last of them and what
      \* it returned
      ines |-> [loads |-> 0, file |-> <<>>, result |-> <<>>],
      \* the audio queue: the writes and reads made, the samples written, and
      \* of the last read_samples call the queue before it, the slice it was
      \* given, the slice as it left it, the count it returned and the queue
      \* after it
      audio |-> [ops |-> 0, written |-> 0, pulled |-> FALSE, before |-> <<>>,
                 given |-> <<>>, out |-> <<>>, read |-> 0, after |-> <<>>],
      \* the samples the audio callback was given: the number of the last
      \* one, how many deliveries there were, and whether each began after
      \* the last sample delivered before it
      native |-> [delivered |-> 0, callbacks |-> 0, in_order |-> TRUE],
      \* the last step in which the Cpu took the NMI or the IRQ vector: the
      \* cycle count Cpu::step returned, and what cpu.cycles, the Ppu's dots
      \* and the Apu's ticks advanced in it
      intr |-> [serviced |-> FALSE, returned |-> 0, own |-> 0, dots |-> 0, ticks |-> 0],
      \* the sound channels: the register writes made, the length-halt flag
      \* each channel was last given ($4000, $4004 and $400C bit 5, $4008
      \* bit 7), the half-frame clocks seen, and of the last of them the
      \* halt flags and the length counters before and after it; and the
      \* last length-load write: its channel, whether the channel was then
      \* enabled, and the counter it left
      \* the last step of a host that raises the interrupt lines itself:
      \* nmi_pending, irq_pending and the I flag before it, whether the NMI
      \* handler was entered in it (it counts in $10) and whether the IRQ
      \* handler was (it counts in $11), and irq_pending after it; and the
      \* steps so far that began with both lines pending
      prio |-> [last |-> << >>, both |-> 0],
      \* the last step of a program that sets the VRAM address: PPUMASK and
      \* v as its instruction left them, and v after the PPU ticks of the step
      scroll |-> << >>,
      \* the frame sequencer under $4017 writes: the writes so far and the
      \* Apu cycles stepped in 4-step mode since the last half-frame clock or,
      \* if later, since the write that selected 4-step mode
      seq |-> [writes |-> 0, quiet |-> 0],
      \* the last capacity change of the output queue: the samples queued
      \* when check_resize ran, the queue the call left, the old and the new
      \* capacity
      resize |-> << >>,
      chan |-> [writes |-> 0,
                halt |-> [pulse1 |-> FALSE, pulse2 |-> FALSE, triangle |-> FALSE, noise |-> FALSE],
                halves |-> 0, at_half |-> <<>>, load |-> <<>>] ]

\* the IRQ sources of the machine: the frame counter's flag (the DMC is
\* silent) and the MMC3's irq_pending
IrqLine(bus) ==
    \/ bus.apu.frame_irq
    \/ /\ bus.cartridge # <<>>
       /\ bus.cartridge[1].mapper.number = 4
       /\ bus.cartridge[1].mapper.irq_pending

\* what a step from n to n2 shows: an NMI serviced (and what the step that
\* took an interrupt vector returned and advanced), an OAM-DMA started (with
\* OAMADDR k, the page, the clock before and after the writing instruction),
\* the steps the Cpu then spends stalled, what clock.cpu_cycles (span) and
\* cpu.cycles (own) advanced until it executes again, the branch executed, and
\* the instruction boundaries with an IRQ source asserted, I clear and no NMI
\* pending (due), those of them at which the IRQ vector was taken, and the
\* Ppu tick count at which rendering was first enabled
Observe(o, n, n2) ==
    LET executed == n.cpu.stall_cycles = 0
        op == Bus_read(n.bus, n.cpu.pc).value
        ins == OPCODE_TABLE(op)
        dma == IF executed /\ n2.bus.oam_dma_page # <<>>
               THEN [state |-> "active", k |-> n.bus.ppu.oam_addr,
                     page |-> n2.bus.oam_dma_page[1], at |-> n.clock.cpu_cycles,
                     end |-> n2.clock.cpu_cycles, stalled |-> 0, span |-> 0,
                     own |-> n2.cpu.cycles]
               ELSE IF o.dma.state = "active"
               THEN IF executed
                    THEN [o.dma EXCEPT !.state = "done",
                                       !.span = n.clock.cpu_cycles - o.dma.end,
                                       !.own = n.cpu.cycles - o.dma.own]
                    ELSE [o.dma EXCEPT !.stalled = o.dma.stalled + 1]
               ELSE o.dma
        due == executed /\ ~n.cpu.nmi_pending /\ Bit(n.cpu.status, 2) = 0 /\ IrqLine(n.bus)
    IN  [o EXCEPT
            !.steps = o.steps + 1,
            !.irq = [due |-> o.irq.due + (IF due THEN 1 ELSE 0),
                     serviced |-> o.irq.serviced
                                    + (IF due /\ n.cpu.irq_pending THEN 1 ELSE 0),
                     render_at |-> IF o.irq.render_at = 0 /\ Ppu_is_rendering(n2.bus.ppu)
                                   THEN n2.bus.ppu.probe.ticks ELSE o.irq.render_at],
            !.nmis = IF executed /\ n.cpu.nmi_pending THEN o.nmis + 1 ELSE o.nmis,
            !.intr = IF executed /\ (n.cpu.nmi_pending
                                     \/ (n.cpu.irq_pending /\ Bit(n.cpu.status, 2) = 0))
                     THEN [serviced |-> TRUE,
                           returned |-> n2.clock.cpu_cycles - n.clock.cpu_cycles,
                           own |-> n2.cpu.cycles - n.cpu.cycles,
                           dots |-> n2.bus.ppu.probe.ticks - n.bus.ppu.probe.ticks,
                           ticks |-> n2.bus.apu.cycles - n.bus.apu.cycles]
                     ELSE o.intr,
            !.dma = dma,
            !.branch = IF executed /\ ~n.cpu.nmi_pending /\ ins.mode = "Relative"
                       THEN << [a |-> n.cpu.pc, instruction |-> ins.instruction,
                                d |-> Bus_read(n.bus, Wrap16(n.cpu.pc + 1)).value,
                                status |-> n.cpu.status, next |-> n2.cpu.pc,
                                cycles |-> n2.clock.cpu_cycles - n.clock.cpu_cycles] >>
                       ELSE <<>>]

\* the host calls nes.step()
Step ==
    /\ host.pc = "idle"
    /\ ~nes.cpu.panicked
    /\ nes.clock.cpu_cycles < host.limit
    /\ nes' = Nes_step(nes)
    /\ obs' = Observe(obs, nes, nes')
    /\ host' = IF host.loaded /\ obs.load.result = "Ok"
               THEN [host EXCEPT !.twin = << Nes_step(host.twin[1]) >>]
               ELSE host

\* the host calls nes.reset(), once, early in the run
Reset ==
    /\ host.pc = "idle"
    /\ ~host.reset
    /\ ~nes.cpu.panicked
    /\ nes.clock.cpu_cycles \in 1..ResetWindow
    /\ nes' = Nes_reset(nes)
    /\ host' = [host EXCEPT !.reset = TRUE]
    /\ obs' = [obs EXCEPT !.base = [ppu |-> nes.bus.ppu.probe.ticks,
                                    apu |-> nes.bus.apu.cycles]]

\* the host calls nes.save_state_to_vec(), once
Save ==
    /\ host.pc = "idle"
    /\ host.file = << >>
    /\ host' = [host EXCEPT !.file = Nes_save_state(nes), !.twin = << nes >>]
    /\ UNCHANGED << nes, obs >>

\* the input of a load_state call: the saved bytes, or what is left of them
\* after the damage `kind`
LoadInput(file, kind) ==
    CASE kind = "saved" -> file
      [] kind = "magic" -> [file EXCEPT ![1] = \hFF]
      [] kind = "version" -> [file EXCEPT ![5] = SAVE_STATE_VERSION + 1]
      [] kind = "empty" -> << >>
      [] kind = "truncated" -> SubSeq(file, 1, Len(file) - 1)
      [] kind = "mapper" -> [file EXCEPT ![Len(file) - 9] = 7]
      [] kind = "palette" -> SubSeq(file, 1, 19) \o ToLE(31, 8) \o SubSeq(file, 29, Len(file))

\* the host calls nes.load_state_from_slice(), once, later than save_state;
\* a panic ends the host
Load ==
    /\ host.pc = "idle"
    /\ host.file # << >>
    /\ ~host.loaded
    /\ \E kind \in {"saved", "magic", "version", "empty", "truncated", "mapper", "palette"} :
          LET done(r) ==
                /\ nes' = r.nes
                /\ obs' = [obs EXCEPT !.load = [kind |-> kind, result |-> r.result,
                                                unchanged |-> r.nes = nes]]
                /\ host' = [host EXCEPT !.loaded = TRUE,
                                        !.pc = IF r.result = "Panic" THEN "panicked" ELSE "idle"]
          IN  done(Nes_load_state(nes, LoadInput(host.file, kind)))

\* the host calls nes.run_frame(): the target is computed
RunFrameBegin ==
    /\ host.pc = "idle"
    /\ host.frames < MaxFrames
    /\ host' = [host EXCEPT !.pc = "run_frame",
                            !.target = Nes_run_frame_target(nes),
                            !.start = nes.clock.cpu_cycles]
    /\ obs' = [obs EXCEPT !.nmis = 0]
    /\ UNCHANGED nes

\* one iteration of the loop of run_frame
RunFrameStep ==
    /\ host.pc = "run_frame"
    /\ ~nes.cpu.panicked
    /\ nes.clock.cpu_cycles < host.target
    /\ nes' = Nes_step(nes)
    /\ obs' = Observe(obs, nes, nes')
    /\ UNCHANGED host

\* the loop condition fails: run_frame returns
RunFrameEnd ==
    /\ host.pc = "run_frame"
    /\ nes.clock.cpu_cycles >= host.target
    /\ host' = [host EXCEPT !.pc = "idle", !.frames = host.frames + 1]
    /\ obs' = [obs EXCEPT !.frame_len = nes.clock.cpu_cycles - host.start]
    /\ UNCHANGED nes

---------------------------------------------------------------------------
(* Frames: hosts that only call run_frame.                                  *)

\* "nmi": the reset handler writes $80 to PPUCTRL and loops, the NMI handler
\*        counts in $10 and returns with RTI
\* "brk": BRK, whose vector points at a BRK again: 7 cycles every step
\* "pad": the same after four NOPs
\* "dma": a loop of OAM-DMAs of page 2, so that the Cpu spends most of the
\*        frame stalled
FrameCarts ==
    { [name |-> "nmi", mapper |-> Mapper0_new, entry |-> \h80,
       reset |-> << \hA9, \h80, \h8D, \h00, \h20,
                    \hFE, \h00, \h02, \hFE, \h00, \h02, \hFE, \h00, \h02, \h4C, \h05, \h80 >>,
       nmi |-> << \hE6, \h10, \h40 >>, irq |-> << \h40 >>],
      [name |-> "brk", mapper |-> Mapper0_new, entry |-> \h80,
       reset |-> << \h00 >>, nmi |-> << \h40 >>, irq |-> << \h00 >>],
      [name |-> "pad", mapper |-> Mapper0_new, entry |-> \h80,
       reset |-> << \hEA, \hEA, \hEA, \hEA, \h00 >>, nmi |-> << \h40 >>, irq |-> << \h00 >>],
      [name |-> "dma", mapper |-> Mapper0_new, entry |-> \h80,
       reset |-> << \hA9, \h02, \h8D, \h14, \h40, \h4C, \h02, \h80 >>,
       nmi |-> << \h40 >>, irq |-> << \h40 >>] }

InitFrame ==
    /\ \E cart \in FrameCarts : nes = Nes_load_cartridge(Nes_new, cart)
    /\ host = Host_new(0)
    /\ obs = Obs_new

NextFrame == RunFrameBegin \/ RunFrameStep \/ RunFrameEnd

SpecFrame == InitFrame /\ [][NextFrame]_vars

\* C1: with the "nmi" cartridge (the reset handler writes $80 to PPUCTRL and
\* loops, the NMI handler ends with RTI) the Cpu has serviced exactly one NMI
\* when a run_frame call returns.
C1_OneNmiPerFrame ==
    (host.pc = "idle" /\ host.frames >= 1 /\ TheCart.name = "nmi") => obs.nmis = 1

\* C30: the step in which the Cpu takes the NMI or the IRQ vector returns a
\* cycle count that includes the 7 cycles of the interrupt sequence, that is
\* all that cpu.cycles advanced in the step, so that clock.cpu_cycles keeps
\* pace with cpu.cycles, the Ppu makes three dots and the Apu one tick for
\* each of those cycles, the 21 dots and 7 ticks of the sequence among them.
C30_InterruptCyclesCounted ==
    obs.intr.serviced =>
        /\ obs.intr.own >= 7
        /\ obs.intr.returned = obs.intr.own
        /\ obs.intr.dots = 3 * obs.intr.own
        /\ obs.intr.ticks = obs.intr.own

\* C9: between two consecutive sets of the VBlank flag the Ppu makes
\* 262 * 341 = 89342 ticks, or one less when a dot of the pre-render line of
\* an odd frame was skipped in between.
C9_TicksPerFrame ==
    LET p == nes.bus.ppu.probe
    IN  p.vbl_sets >= 2 => p.vbl_gap = (262 * 341) - (IF p.gap_skip THEN 1 ELSE 0)

\* C8 as stated: every run_frame call advances the cycle counter by between
\* 29778 and 29782 cycles.
C8_FrameLengthWithinTwo ==
    (host.pc = "idle" /\ host.frames >= 1)
        => obs.frame_len \in (FrameBudget - 2)..(FrameBudget + 2)

\* C8 as the code has it: every run_frame call advances the cycle counter by
\* at least the budget of 29780 cycles and by at most 6 cycles more, the
\* overshoot of a 7-cycle instruction begun one cycle short of the budget.
C8_FrameLength ==
    (host.pc = "idle" /\ host.frames >= 1)
        => obs.frame_len \in FrameBudget..(FrameBudget + 6)

\* a run_frame that a 7-cycle instruction carried 6 cycles past the budget
C8_Witness ==
    host.pc = "idle" /\ host.frames >= 1 /\ obs.frame_len = FrameBudget + 6

---------------------------------------------------------------------------
(* OAM-DMA: hosts that call step, and may reset once.                       *)

\* the cycles a host of this section lets the console run
MaxCycles == 560

\* OAMADDR := k; $0207 := $55; (a 3-cycle LDA when pad, so that the write
\* below falls on the other parity;) $4014 := page; then a loop of NOPs
DmaCart(k, page, pad) ==
    [name |-> "oamdma", mapper |-> Mapper0_new, entry |-> \h80,
     reset |-> << \hA9, k, \h8D, \h03, \h20, \hA9, \h55, \h8D, \h07, \h02 >>
               \o (IF pad THEN << \hA5, \h00 >> ELSE << >>)
               \o << \hA9, page, \h8D, \h14, \h40, \hEA, \h4C,
                     IF pad THEN \h11 ELSE \h0F, \h80 >>,
     nmi |-> << \h40 >>, irq |-> << \h40 >>]

InitDma ==
    /\ \E k \in {0, 1}, page \in {\h02, \h80}, pad \in BOOLEAN :
            nes = Nes_load_cartridge(Nes_new, DmaCart(k, page, pad))
    /\ host = Host_new(MaxCycles)
    /\ obs = Obs_new

NextDma == Step \/ Reset

SpecDma == InitDma /\ [][NextDma]_vars

\* C5: after every step the Ppu has done 3 dots and the Apu 1 tick for each
\* cycle of clock.cpu_cycles since the last reset, stall cycles included.
C5_ThreeDotsPerCycle ==
    /\ nes.bus.ppu.probe.ticks - obs.base.ppu = 3 * nes.clock.cpu_cycles
    /\ nes.bus.apu.cycles - obs.base.apu = nes.clock.cpu_cycles

\* the Cpu is stalled in an OAM-DMA that began after a reset
C5_Witness ==
    /\ host.reset /\ obs.base.ppu > 0 /\ obs.dma.at > 0
    /\ nes.cpu.stall_cycles > 0 /\ nes.bus.oam_dma_page # << >>
    /\ obs.dma.state = "active" /\ obs.dma.stalled > 256

\* C6: once an OAM-DMA of page P begun with OAMADDR = k has completed,
\* OAM[(k + i) mod 256] holds the byte at (P << 8) + i, for every i.
C6_DmaStartsAtOamAddr ==
    (obs.dma.state = "done" /\ ~host.reset)
        => \A i \in 0..255 :
              Get(nes.bus.ppu.oam, (obs.dma.k + i) % 256)
                  = Bus_read(nes.bus, (obs.dma.page * 256) + i).value

\* C7: after the write to $4014 the Cpu spends 513 cycles stalled when the
\* write fell on an even cycle and 514 when it fell on an odd one (the write
\* is made in the last cycle of the instruction), and the cycle counter
\* advances by as much.
C7_StallByParity ==
    (obs.dma.state = "done" /\ ~host.reset)
        => LET n == IF (obs.dma.end - 1) % 2 = 0 THEN 513 ELSE 514
           IN  obs.dma.stalled = n /\ obs.dma.span = n

---------------------------------------------------------------------------
(* Branches: hosts that call step on programs with a conditional branch.    *)

\* the eight conditional branch opcodes
BranchOpcodes == { \h10, \h30, \h50, \h70, \h90, \hB0, \hD0, \hF0 }

\* P := p (through PHA and PLP); the branch op with operand d at $8004; then
\* LDA #$FF, LDA #$42 and a loop
BranchCart(op, p, d) ==
    [name |-> "branch", mapper |-> Mapper0_new, entry |-> \h80,
     reset |-> << \hA9, p, \h48, \h28, op, d, \hA9, \hFF, \hA9, \h42, \h4C, \h0A, \h80 >>,
     nmi |-> << \h40 >>, irq |-> << \h4C, \h50, \h80 >>]

\* the program A9 00 F0 02 A9 FF A9 42, run from $C000
BranchTakenCart ==
    [name |-> "branch_taken", mapper |-> Mapper0_new, entry |-> \hC0,
     reset |-> << \hA9, \h00, \hF0, \h02, \hA9, \hFF, \hA9, \h42 >>,
     nmi |-> << \h40 >>, irq |-> << \h4C, \h50, \h80 >>]

InitBranch ==
    /\ \E cart \in {BranchTakenCart}
                    \cup { BranchCart(op, p, d) : op \in BranchOpcodes, p \in {\h00, \hC3},
                                                  d \in {\h02, \h10, \hEA} } :
            nes = Nes_load_cartridge(Nes_new, cart)
    /\ host = Host_new(MaxCycles)
    /\ obs = Obs_new

NextBranch == Step

SpecBranch == InitBranch /\ [][NextBranch]_vars

\* C4: after a conditional branch at a with operand d the Cpu is at
\* a + 2 + signed(d) when the condition held and at a + 2 when it did not;
\* and the program A9 00 F0 02 A9 FF A9 42 has A = $42 after three steps.
C4_BranchTarget ==
    /\ obs.branch # << >> =>
          LET b == obs.branch[1]
              flag == CASE b.instruction \in {"BCC", "BCS"} -> 0
                        [] b.instruction \in {"BNE", "BEQ"} -> 1
                        [] b.instruction \in {"BVC", "BVS"} -> 6
                        [] b.instruction \in {"BPL", "BMI"} -> 7
              holds == Bit(b.status, flag)
                          = (IF b.instruction \in {"BCS", "BEQ", "BVS", "BMI"} THEN 1 ELSE 0)
          IN  b.next = IF holds THEN Wrap16(b.a + 2 + Signed8(b.d) + 65536)
                       ELSE Wrap16(b.a + 2)
    /\ (TheCart.name = "branch_taken" /\ obs.steps = 3) => nes.cpu.a = \h42

\* C33: the step of a conditional branch at a with operand d takes 2 cycles
\* when the condition does not hold, 3 when it holds and a + 2 + signed(d)
\* is in the 256-byte page of a + 2, the instruction after the branch, and
\* 4 when it holds and the destination is in another page.
C33_BranchCycles ==
    obs.branch # << >> =>
        LET b == obs.branch[1]
            flag == CASE b.instruction \in {"BCC", "BCS"} -> 0
                      [] b.instruction \in {"BNE", "BEQ"} -> 1
                      [] b.instruction \in {"BVC", "BVS"} -> 6
                      [] b.instruction \in {"BPL", "BMI"} -> 7
            holds == Bit(b.status, flag)
                        = (IF b.instruction \in {"BCS", "BEQ", "BVS", "BMI"} THEN 1 ELSE 0)
            after == Wrap16(b.a + 2)
            destination == Wrap16(b.a + 2 + Signed8(b.d) + 65536)
        IN  b.cycles = IF ~holds THEN 2
                       ELSE IF destination \div 256 = after \div 256 THEN 3 ELSE 4

---------------------------------------------------------------------------
(* Save states: hosts that call step, save_state once and load_state once.  *)

\* the cycles a host of this section lets the console run
MaxSaveCycles == 30

InitSave ==
    /\ \E k \in {0, 1} : nes = Nes_load_cartridge(Nes_new, DmaCart(k, \h02, FALSE))
    /\ host = Host_new(MaxSaveCycles)
    /\ obs = Obs_new

NextSave == Step \/ Save \/ Load

SpecSave == InitSave /\ [][NextSave]_vars

\* what a host sees of a console: the registers of the Cpu, the RAM and OAM
View(n) ==
    [ a |-> n.cpu.a, x |-> n.cpu.x, y |-> n.cpu.y, sp |-> n.cpu.sp, pc |-> n.cpu.pc,
      status |-> n.cpu.status, ram |-> n.bus.ram, oam |-> n.bus.ppu.oam ]

\* C2: once the bytes save_state produced in a state s have been loaded, the
\* console shows after every number of further steps what s shows after as
\* many steps.
C2_RoundTrip ==
    (obs.load.kind = "saved" /\ obs.load.result = "Ok") => View(nes) = View(host.twin[1])

\* C3: a load_state call that does not complete successfully leaves the
\* whole console as it was before the call.
C3_FailedLoadChangesNothing ==
    obs.load.result # "Ok" => obs.load.unchanged

---------------------------------------------------------------------------
(* The VBlank race: hosts that call step on a program that polls PPUSTATUS. *)

\* the cycles a host of this section lets the console run
MaxRaceCycles == 147000

\* PPUMASK := $08 (background on); PPUCTRL := $80 (NMI on); pad NOPs; then a
\* loop of INC $0200,X and JMP.  The NMI handler reads PPUSTATUS and returns.
RaceCart(pad) ==
    [name |-> "race", mapper |-> Mapper0_new, entry |-> \h80,
     reset |-> << \hA9, \h08, \h8D, \h01, \h20, \hA9, \h80, \h8D, \h00, \h20 >>
               \o [i \in 1..pad |-> \hEA]
               \o << \hFE, \h00, \h02, \h4C, \h0A + pad, \h80 >>,
     nmi |-> << \hAD, \h02, \h20, \h40 >>, irq |-> << \h40 >>]

InitRace ==
    /\ \E pad \in {0, 4} : nes = Nes_load_cartridge(Nes_new, RaceCart(pad))
    /\ host = Host_new(MaxRaceCycles)
    /\ obs = Obs_new

NextRace == Step

SpecRace == InitRace /\ [][NextRace]_vars

\* C10: when PPUSTATUS is read while the next Ppu tick is the one of scanline
\* 241, dot 1, with NMIs enabled in PPUCTRL, the read returns bit 7 clear,
\* and during the 20 scanlines of that VBlank the flag is not set and no NMI
\* is delivered to the Cpu.
C10_RaceSuppressesVBlank ==
    LET p == nes.bus.ppu.probe
    IN  (p.race.seen /\ p.ticks > p.race.tick /\ p.ticks - p.race.tick <= 20 * 341
            /\ Bit(nes.bus.ppu.ctrl, 7) = 1)
          => /\ p.race.bit7 = 0
             /\ p.vbl_tick <= p.race.tick
             /\ ~nes.cpu.nmi_pending

---------------------------------------------------------------------------
(* Interrupt requests: hosts that call step on a program that clears I and  *)
(* waits for the frame counter's IRQ.                                       *)

\* the cycles a host of this section lets the console run
MaxIrqCycles == 29900

\* CLI, then a loop of INC $0200,X and JMP; the IRQ handler counts in $10 and
\* returns
IrqCart ==
    [name |-> "irq", mapper |-> Mapper0_new, entry |-> \h80,
     reset |-> << \h58, \hFE, \h00, \h02, \h4C, \h01, \h80 >>,
     nmi |-> << \h40 >>, irq |-> << \hE6, \h10, \h40 >>]

\* An MMC3 cartridge of 16 KiB: IRQ latch := 7 ($C000), reload ($C001), IRQ
\* enable ($E001), PPUMASK := $18, CLI, then the same loop.  The IRQ handler
\* acknowledges ($E000, $E001), counts in $10 and returns.
Mmc3Cart ==
    [name |-> "mmc3", mapper |-> Mapper4_new(\h4000, 0), entry |-> \h80,
     reset |-> << \hA9, \h07, \h8D, \h00, \hC0, \h8D, \h01, \hC0, \h8D, \h01, \hE0,
                  \hA9, \h18, \h8D, \h01, \h20, \h58,
                  \hFE, \h00, \h02, \h4C, \h11, \h80 >>,
     nmi |-> << \h40 >>,
     irq |-> << \h8D, \h00, \hE0, \h8D, \h01, \hE0, \hE6, \h10, \h40 >>]

InitIrq ==
    /\ \E cart \in {IrqCart, Mmc3Cart} : nes = Nes_load_cartridge(Nes_new, cart)
    /\ host = Host_new(MaxIrqCycles)
    /\ obs = Obs_new

NextIrq == Step

SpecIrq == InitIrq /\ [][NextIrq]_vars

\* C11: at every instruction boundary at which an IRQ source is asserted, the
\* I flag is clear and no NMI is pending, the Cpu takes the IRQ vector before
\* it executes the next instruction.
C11_IrqServiced == obs.irq.serviced = obs.irq.due

\* C12: on the MMC3 cartridge, in the first 20 scanlines after rendering was
\* enabled, the Cpu has taken the IRQ vector once when 9 scanlines have been
\* rendered and twice when 17 have, and not earlier than every 8th scanline.
C12_IrqEveryEightScanlines ==
    LET lines == (nes.bus.ppu.probe.ticks - obs.irq.render_at) \div 341
    IN  (TheCart.name = "mmc3" /\ obs.irq.render_at > 0 /\ lines <= 20)
          => /\ obs.irq.serviced * 8 <= lines + 1
             /\ lines >= 9 => obs.irq.serviced >= 1
             /\ lines >= 17 => obs.irq.serviced >= 2

---------------------------------------------------------------------------
(* The frame counter: hosts that drive the Apu alone, calling step and,     *)
(* once, write_register($4017).                                             *)

\* the Apu cycles a host of this section runs
MaxApuCycles == 47400

\* apu.cycles at which the host may write $4017
WriteTimes == {5, 10000}

\* the host calls apu.step()
ApuStep ==
    LET apu == nes.bus.apu
        seen(a, f) ==
            [f EXCEPT
                !.sets = f.sets + (IF f.written /\ ~apu.frame_irq /\ a.frame_irq THEN 1 ELSE 0),
                !.set_at = IF f.written /\ f.sets = 0 /\ ~apu.frame_irq /\ a.frame_irq
                           THEN a.cycles ELSE f.set_at,
                !.next_quarter = IF f.written /\ f.next_quarter = 0
                                      /\ a.probe.quarter > apu.probe.quarter
                                 THEN a.cycles ELSE f.next_quarter]
        step(a) == /\ nes' = [nes EXCEPT !.bus.apu = a]
                   /\ obs' = [obs EXCEPT !.frame = seen(a, obs.frame)]
    IN  /\ apu.cycles < host.limit
        /\ step(Apu_step(apu))
        /\ UNCHANGED host

\* the host calls apu.write_register(0x4017, value)
ApuWrite ==
    LET apu == nes.bus.apu
        write(value, a) ==
            /\ nes' = [nes EXCEPT !.bus.apu = a]
            /\ obs' = [obs EXCEPT !.frame =
                         [written |-> TRUE, value |-> value, at |-> apu.cycles,
                          irq_before |-> apu.frame_irq, irq_after |-> a.frame_irq,
                          quarter |-> a.probe.quarter - apu.probe.quarter,
                          half |-> a.probe.half - apu.probe.half,
                          sets |-> 0, set_at |-> 0, next_quarter |-> 0]]
    IN  /\ ~obs.frame.written
        /\ apu.cycles \in WriteTimes
        /\ \E value \in {\h00, \h40, \h80, \hC0} :
              write(value, Apu_write_register(apu, \h4017, value))
        /\ UNCHANGED host

InitApu ==
    /\ nes = Nes_new
    /\ host = Host_new(MaxApuCycles)
    /\ obs = Obs_new

NextApu == ApuStep \/ ApuWrite

SpecApu == InitApu /\ [][NextApu]_vars

\* C13: a write of $00 to $4017 with the frame IRQ flag clear leaves the flag
\* clear; the sequencer raises it once, 29829 cycles (give or take one) after
\* the write, and once only in the 29830 cycles after the write.
C13_FrameIrqOnceAtStepFour ==
    LET f == obs.frame
        since == nes.bus.apu.cycles - f.at
    IN  (f.written /\ f.value = \h00 /\ ~f.irq_before /\ since <= 29830)
          => /\ ~f.irq_after
             /\ f.sets <= 1
             /\ f.sets = 1 => f.set_at - f.at \in 29828..29830
             /\ since = 29830 => f.sets = 1

\* C14: after a write to $4017 with bit 7 clear and bit 6 set the sequencer
\* never raises the frame IRQ flag.
C14_InhibitedNeverRaised ==
    (obs.frame.written /\ obs.frame.value = \h40)
      => (obs.frame.sets = 0 /\ ~nes.bus.apu.frame_irq)

\* C15: after a write to $4017 with bit 7 set the frame IRQ flag is not set,
\* neither by the write nor by a sequencer step.
C15_FiveStepNeverRaised ==
    (obs.frame.written /\ Bit(obs.frame.value, 7) = 1 /\ ~obs.frame.irq_before)
      => (~obs.frame.irq_after /\ obs.frame.sets = 0 /\ ~nes.bus.apu.frame_irq)

\* C16: the first quarter-frame clock after a write to $4017 comes one first
\* step (7457 cycles, give or take one) after the write, and a write with bit
\* 7 set applies one quarter-frame and one half-frame clock itself.
C16_WriteRestartsSequence ==
    LET f == obs.frame
    IN  f.written
          => /\ f.next_quarter > 0 => f.next_quarter - f.at \in 7456..7458
             /\ Bit(f.value, 7) = 1 => (f.quarter = 1 /\ f.half = 1)

---------------------------------------------------------------------------
(* The frame counter under mode switches: hosts that drive the Apu alone    *)
(* and write $4017 more than once.                                          *)

\* the Apu cycles a host of this section runs
MaxSeqCycles == 60000

\* the $4017 writes a host of this section makes
MaxSeqWrites == 2

\* apu.cycles at which the host may write $4017
SeqWriteTimes == {0, 30000}

\* the host calls apu.step()
SeqStep ==
    LET apu == nes.bus.apu
        seen(a) == IF a.probe.half > apu.probe.half \/ a.frame_mode THEN 0
                   ELSE obs.seq.quiet + 1
        step(a) == /\ nes' = [nes EXCEPT !.bus.apu = a]
                   /\ obs' = [obs EXCEPT !.seq.quiet = seen(a)]
    IN  /\ apu.cycles < host.limit
        /\ step(Apu_step(apu))
        /\ UNCHANGED host

\* the host calls apu.write_register(0x4017, value)
SeqWrite ==
    LET apu == nes.bus.apu
        write(a) ==
            /\ nes' = [nes EXCEPT !.bus.apu = a]
            /\ obs' = [obs EXCEPT !.seq.writes = @ + 1,
                                  !.seq.quiet = IF apu.frame_mode \/ a.frame_mode
                                                THEN 0 ELSE @]
    IN  /\ obs.seq.writes < MaxSeqWrites
        /\ apu.cycles \in SeqWriteTimes
        /\ \E value \in {\h00, \h80} : write(Apu_write_register(apu, \h4017, value))
        /\ UNCHANGED host

InitSeq ==
    /\ nes = Nes_new
    /\ host = Host_new(MaxSeqCycles)
    /\ obs = Obs_new

NextSeq == SeqStep \/ SeqWrite

SpecSeq == InitSeq /\ [][NextSeq]_vars

\* C37: in 4-step mode no more than 29830 Apu cycles pass without a
\* half-frame clock, counted from the last half-frame clock or from the
\* $4017 write that switched the sequencer from 5-step to 4-step mode.
C37_HalfFrameWithinSequence == obs.seq.quiet <= 29830

---------------------------------------------------------------------------
(* The mappers: the host writes to and reads from a cartridge through the  *)
(* bus.                                                                    *)

MaxWrites == 11
MaxBankWrites == 2

BanksCart(mapper, prg_size) == [name |-> "banks", mapper |-> mapper, prg_size |-> prg_size]

\* an MMC1 and a UxROM of two 16 KiB banks, an MMC3 of four 8 KiB banks and
\* an AxROM of two 32 KiB banks
MapperCarts ==
    { BanksCart(Mapper1_new, \h8000), BanksCart(Mapper2_new(\h8000), \h8000),
      BanksCart(Mapper4_new(\h8000, 0), \h8000), BanksCart(Mapper7_new(\h10000), \h10000) }

\* the registers of an MMC1 after one more write, when the fifth write since
\* the last reset of the shift register loads the register that bits 14-13 of
\* its address select with the five bits written, the first in bit 0
Mmc1_claimed(e, addr, value) ==
    LET bits == Append(e.bits, value % 2)
        v == bits[1] + (2 * bits[2]) + (4 * bits[3]) + (8 * bits[4]) + (16 * bits[5])
        reg == (addr \div \h2000) % 4
    IN  IF Bit(value, 7) = 1
        THEN [e EXCEPT !.bits = <<>>, !.control = BitOr(e.control, \h0C)]
        ELSE IF Len(bits) < 5 THEN [e EXCEPT !.bits = bits]
        ELSE [e EXCEPT !.bits = <<>>,
                       !.control = IF reg = 0 THEN v ELSE e.control,
                       !.chr_bank0 = IF reg = 1 THEN v ELSE e.chr_bank0,
                       !.chr_bank1 = IF reg = 2 THEN v ELSE e.chr_bank1,
                       !.prg_bank = IF reg = 3 THEN v ELSE e.prg_bank]

\* the host calls nes.bus.write(addr, value)
BusWrite ==
    LET cart == nes.bus.cartridge[1]
        number == cart.mapper.number
        addrs == CASE number = 1 -> {\h8000, \hE000}
                   [] number = 4 -> {\h8000, \h8001}
                   [] OTHER -> {\h8000, \h8001, \h8002}
        values == CASE number = 1 -> {0, 1, \h80}
                    [] number = 4 -> {1, 6}
                    [] OTHER -> 0..3
        write(addr, value, r) ==
            /\ nes' = [nes EXCEPT !.bus = Bus_write(nes.bus, addr, value)]
            /\ obs' = [obs EXCEPT !.mem =
                         [writes |-> IF number = 1 THEN <<>>
                                     ELSE Append(obs.mem.writes,
                                                 [addr |-> addr, value |-> value, r |-> r]),
                          count |-> obs.mem.count + 1,
                          read |-> <<>>,
                          claimed |-> IF number = 1
                                      THEN Mmc1_claimed(obs.mem.claimed, addr, value)
                                      ELSE obs.mem.claimed]]
    IN  /\ host.pc = "idle"
        /\ obs.mem.count < (IF number = 1 THEN MaxWrites ELSE MaxBankWrites)
        /\ \E addr \in addrs, value \in values :
              write(addr, value, Cartridge_read_prg(cart, addr))
        /\ UNCHANGED host

\* the host calls nes.bus.read(addr); a panic ends the process
BusRead ==
    LET read(addr, r) ==
            /\ nes' = [nes EXCEPT !.bus = r.bus]
            /\ obs' = [obs EXCEPT !.mem.read = << [addr |-> addr, value |-> r.value] >>]
            /\ host' = [host EXCEPT !.pc = IF r.value = Panic THEN "panicked" ELSE "idle"]
    IN  /\ host.pc = "idle"
        /\ \E addr \in {\h8000, \hC000} : read(addr, Bus_read(nes.bus, addr))

InitMapper ==
    /\ \E cart \in MapperCarts : nes = Nes_load_cartridge(Nes_new, cart)
    /\ host = Host_new(0)
    /\ obs = Obs_new

NextMapper == BusWrite \/ BusRead

SpecMapper == InitMapper /\ [][NextMapper]_vars

\* C17: no read of $8000-$FFFF panics, whatever was written to the mapper.
C17_ReadsNeverPanic ==
    obs.mem.read # <<>> => obs.mem.read[1].value # Panic

\* C18: a bank-select write that names bank b on a cartridge of n banks maps
\* bank b mod n: after a UxROM or AxROM write of b at an address whose ROM
\* byte is $FF, or after an MMC3 write of 6 to $8000 and of b to $8001, the
\* byte read at $8000 is the first byte of bank b mod n.
C18_BankModuloCount ==
    LET cart == nes.bus.cartridge[1]
        w == obs.mem.writes
        b == w[Len(w)].value
        first(size, n) == ((size \div \h2000) * (b % n)) + 1
        named == CASE cart.mapper.number = 2 -> w[Len(w)].r = \hFF
                   [] cart.mapper.number = 7 -> w[Len(w)].r = \hFF
                   [] cart.mapper.number = 4 ->
                        /\ Len(w) >= 2
                        /\ w[Len(w) - 1].addr = \h8000 /\ w[Len(w) - 1].value = 6
                        /\ w[Len(w)].addr = \h8001
                   [] OTHER -> FALSE
        expected == CASE cart.mapper.number = 2 -> first(\h4000, cart.prg_size \div \h4000)
                      [] cart.mapper.number = 7 -> first(\h8000, cart.prg_size \div \h8000)
                      [] cart.mapper.number = 4 -> first(\h2000, cart.prg_size \div \h2000)
    IN  (w # <<>> /\ named /\ obs.mem.read # <<>> /\ obs.mem.read[1].addr = \h8000)
          => obs.mem.read[1].value = expected

\* C19: on a UxROM or an AxROM a write of v at an address whose ROM byte is r
\* loads the bank register with (v AND r); checked where (v AND r) is the
\* index of a bank of the cartridge.
C19_BusConflictAnd ==
    LET cart == nes.bus.cartridge[1]
        w == obs.mem.writes
        last == w[Len(w)]
        n == cart.prg_size \div (IF cart.mapper.number = 2 THEN \h4000 ELSE \h8000)
    IN  (w # <<>> /\ cart.mapper.number \in {2, 7} /\ last.r # Panic
           /\ BitAnd(last.value, last.r) < n)
          => cart.mapper.prg_bank = BitAnd(last.value, last.r)

\* C20: on an MMC1 the fifth write with bit 7 clear since the shift register
\* was last reset loads the register selected by bits 14-13 of its address
\* with the five bits written, the first in bit 0; writes one to four change
\* no register; a write with bit 7 set drops the bits shifted so far and ORs
\* the control register with $0C.
C20_Mmc1SerialLoad ==
    LET m == nes.bus.cartridge[1].mapper
        e == obs.mem.claimed
    IN  m.number = 1
          => /\ m.control = e.control
             /\ m.chr_bank0 = e.chr_bank0
             /\ m.chr_bank1 = e.chr_bank1
             /\ m.prg_bank = e.prg_bank
             /\ m.shift_count = Len(e.bits)

\* C20, with four bits for the PRG bank: as above, except that the PRG bank
\* register (bits 14-13 = 3) keeps only the low four of the five bits.
C20_Mmc1SerialLoadLowFour ==
    LET m == nes.bus.cartridge[1].mapper
        e == obs.mem.claimed
    IN  m.number = 1
          => /\ m.control = e.control
             /\ m.chr_bank0 = e.chr_bank0
             /\ m.chr_bank1 = e.chr_bank1
             /\ m.prg_bank = e.prg_bank % 16
             /\ m.shift_count = Len(e.bits)

\* five writes to $E000 have loaded the PRG bank register, the fifth of them
\* with bit 0 set, and five writes to $8000 the control register
C20_Witness ==
    LET m == nes.bus.cartridge[1].mapper
        e == obs.mem.claimed
    IN  /\ m.number = 1
        /\ e.prg_bank >= 16 /\ m.prg_bank = e.prg_bank - 16
        /\ m.control # \h0C

---------------------------------------------------------------------------
(* PPU memory: the host reaches CHR, the nametables and the palette        *)
(* through PPUADDR ($2006) and PPUDATA ($2007).                             *)

MaxVramAccesses == 3

\* an NROM cartridge without CHR-ROM whose header asks for `mirroring`
VramCart(mirroring) ==
    [name |-> "vram", mapper |-> Mapper0_new, mirroring |-> mirroring, entry |-> \h80,
     reset |-> << \h4C, \h00, \h80 >>, nmi |-> << \h40 >>, irq |-> << \h40 >>]

VramAddrs ==
    { \h0000, \h2005, \h2405, \h2805, \h2C05,
      \h3F00, \h3F10, \h3F04, \h3F14, \h3F08, \h3F18, \h3F0C, \h3F1C }

\* the same image with 8 KiB of CHR-ROM, every byte $FF
ChrRomCart == [VramCart("Horizontal") EXCEPT !.name = "hit"]

\* the program writes addr to PPUADDR, high byte first, and value to PPUDATA
Ppu_data_write(bus, addr, value) ==
    Bus_write(Bus_write(Bus_write(bus, \h2006, addr \div 256), \h2006, addr % 256),
              \h2007, value)

\* the program writes addr to PPUADDR and reads PPUDATA: once for a palette
\* address, twice below it, where the first read gives the old read buffer
Ppu_data_read(bus, addr) ==
    LET first == Bus_read(Bus_write(Bus_write(bus, \h2006, addr \div 256),
                                    \h2006, addr % 256), \h2007)
    IN  IF addr >= \h3F00 THEN first ELSE Bus_read(first.bus, \h2007)

\* the byte of PPU memory that an address names: CHR RAM, a nametable
\* folded by the mirroring, or a palette entry
ClaimedCell(addr, mirroring) ==
    LET k == (addr - \h2000) % \h1000
        table == IF mirroring = "Vertical" THEN (k \div \h400) % 2 ELSE k \div \h800
        pa == addr % 32
    IN  IF addr < \h2000 THEN addr
        ELSE IF addr < \h3F00 THEN \h2000 + (table * \h400) + (k % \h400)
        ELSE \h3F00 + (IF pa \in {16, 20, 24, 28} THEN pa - 16 ELSE pa)

\* the program writes a byte to PPU memory
PpuDataWrite ==
    LET cart == nes.bus.cartridge[1]
        write(addr, value) ==
            /\ nes' = [nes EXCEPT !.bus = Ppu_data_write(nes.bus, addr, value)]
            /\ obs' = [obs EXCEPT !.vmem =
                         [count |-> obs.vmem.count + 1,
                          last |-> << [addr |-> addr, value |-> value] >>,
                          read |-> <<>>,
                          claimed |-> Put(obs.vmem.claimed,
                                          ClaimedCell(addr, cart.mirroring), value)]]
    IN  /\ obs.vmem.count < MaxVramAccesses
        /\ \E addr \in VramAddrs : write(addr, \h2A)
        /\ UNCHANGED host

\* the program reads a byte of PPU memory
PpuDataRead ==
    LET read(addr, r) ==
            /\ nes' = [nes EXCEPT !.bus = r.bus]
            /\ obs' = [obs EXCEPT !.vmem.count = obs.vmem.count + 1,
                                  !.vmem.read =
                                      << [addr |-> addr, value |-> r.value,
                                          content |-> Ppu_read_byte(nes.bus.ppu, addr,
                                                                    nes.bus.cartridge[1])] >>]
    IN  /\ obs.vmem.count < MaxVramAccesses
        /\ \E addr \in VramAddrs : read(addr, Ppu_data_read(nes.bus, addr))
        /\ UNCHANGED host

InitVram ==
    /\ \E cart \in {VramCart("Horizontal"), VramCart("Vertical"), ChrRomCart} :
          nes = Nes_load_cartridge(Nes_new, cart)
    /\ host = Host_new(0)
    /\ obs = Obs_new

NextVram == PpuDataWrite \/ PpuDataRead

SpecVram == InitVram /\ [][NextVram]_vars

\* C21: on a cartridge without CHR-ROM a read of an address below $2000
\* returns the byte last written there.
C21_ChrRamReadsBack ==
    LET v == obs.vmem
    IN  (nes.bus.cartridge[1].name = "vram"
           /\ v.last # <<>> /\ v.read # <<>> /\ v.last[1].addr < \h2000
           /\ v.read[1].addr = v.last[1].addr)
          => v.read[1].value = v.last[1].value

\* C22: the nametable addresses are folded onto the VRAM by the cartridge's
\* mirroring: a read of a nametable address returns the byte last written
\* at an address of the same cell ($2000+k and $2800+k with vertical,
\* $2000+k and $2400+k with horizontal mirroring), and a write at an address
\* of another cell leaves it alone.
C22_NametableMirroring ==
    LET v == obs.vmem
        cart == nes.bus.cartridge[1]
    IN  (v.read # <<>> /\ v.read[1].addr >= \h2000 /\ v.read[1].addr < \h3F00)
          => v.read[1].value = Get(v.claimed, ClaimedCell(v.read[1].addr, cart.mirroring))

\* C34: below $3F00 a read of PPUDATA returns what the read before it
\* fetched and fetches the byte at the current address: the second of two
\* reads made after the address was set to a returns the byte the PPU has
\* at a, in the pattern tables and in the nametables.
C34_BufferedRead ==
    LET v == obs.vmem
    IN  (v.read # <<>> /\ v.read[1].addr < \h3F00) => v.read[1].value = v.read[1].content

\* C28: for p in {$3F10, $3F14, $3F18, $3F1C} reads of p and of p - $10
\* return the same value in every state, through PPUDATA and for the PPU
\* itself, and after a write to either of them both read the value written.
C28_PaletteMirrors ==
    LET v == obs.vmem
        cart == nes.bus.cartridge[1]
        same(p) ==
            /\ Ppu_data_read(nes.bus, p).value = Ppu_data_read(nes.bus, p - 16).value
            /\ Ppu_read_byte(nes.bus.ppu, p, cart) = Ppu_read_byte(nes.bus.ppu, p - 16, cart)
        written(p) ==
            (v.last # <<>> /\ v.last[1].addr \in {p, p - 16})
              => /\ Ppu_data_read(nes.bus, p).value = v.last[1].value
                 /\ Ppu_data_read(nes.bus, p - 16).value = v.last[1].value
    IN  \A p \in {\h3F10, \h3F14, \h3F18, \h3F1C} : same(p) /\ written(p)

\* $3F14 was written and $3F04 read since, or the other way round
C28_Witness ==
    LET v == obs.vmem
    IN  /\ v.last # <<>> /\ v.read # <<>>
        /\ {v.last[1].addr, v.read[1].addr} = {\h3F04, \h3F14}
        /\ v.read[1].value = v.last[1].value
        /\ v.read[1].value # 0

---------------------------------------------------------------------------
(* The controller port: the host sets the buttons, the program strobes and *)
(* reads $4016.                                                            *)

MaxPadAccesses == 13

\* Bus::set_controller1
Bus_set_controller1(bus, state) == [bus EXCEPT !.controller1_state = state]

\* Nes::set_controller1, between two steps of the program
SetController1 ==
    /\ obs.pad.count < MaxPadAccesses
    /\ \E state \in {\h00, \hA5, \hFF} :
          /\ state # nes.bus.controller1_state
          /\ nes' = [nes EXCEPT !.bus = Bus_set_controller1(nes.bus, state)]
    /\ obs' = [obs EXCEPT !.pad.count = obs.pad.count + 1]
    /\ UNCHANGED host

\* the program writes 1 or 0 to $4016
PadWrite ==
    LET pad == obs.pad
        seen(value) ==
            IF value = 1
            THEN [pad EXCEPT !.phase = "high", !.latched = nes.bus.controller1_state,
                             !.reads = <<>>,
                             !.prior = IF pad.phase = "idle" THEN pad.prior ELSE 0]
            ELSE [pad EXCEPT !.phase = IF pad.phase = "high" THEN "low" ELSE pad.phase]
    IN  /\ pad.count < MaxPadAccesses
        /\ \E value \in {0, 1} :
              /\ nes' = [nes EXCEPT !.bus = Bus_write(nes.bus, \h4016, value)]
              /\ obs' = [obs EXCEPT !.pad = [seen(value) EXCEPT !.count = pad.count + 1]]
        /\ UNCHANGED host

\* the program reads $4016
PadRead ==
    LET pad == obs.pad
        seen(bit) ==
            CASE pad.phase = "low" ->
                    [pad EXCEPT !.reads = IF Len(pad.reads) < 8
                                          THEN Append(pad.reads, bit) ELSE pad.reads]
              [] pad.phase = "high" -> [pad EXCEPT !.phase = "void"]
              [] pad.phase = "idle" -> [pad EXCEPT !.prior = pad.prior + 1]
              [] OTHER -> pad
        read(r) ==
            /\ nes' = [nes EXCEPT !.bus = r.bus]
            /\ obs' = [obs EXCEPT !.pad = [seen(r.value % 2) EXCEPT !.count = pad.count + 1]]
    IN  /\ pad.count < MaxPadAccesses
        /\ read(Bus_read(nes.bus, \h4016))
        /\ UNCHANGED host

InitPad ==
    /\ nes = Nes_load_cartridge(Nes_new, VramCart("Horizontal"))
    /\ host = Host_new(0)
    /\ obs = Obs_new

NextPad == SetController1 \/ PadWrite \/ PadRead

SpecPad == InitPad /\ [][NextPad]_vars

---------------------------------------------------------------------------
(* The cartridge loader.  A file is its first bytes (at most the 16 of the *)
(* header) and the number of bytes that follow them.                        *)

MaxLoads == 2

\* a from_ines that reports every failed read as InvalidHeader
Cartridge_from_ines_one_error(file) ==
    LET header == file.header
        prg_size == header[5] * 16384
        chr_size == header[6] * 8192
        mapper_num == (header[7] \div 16) + ((header[8] \div 16) * 16)
        mirroring == IF Bit(header[7], 3) = 1 THEN "FourScreen"
                     ELSE IF Bit(header[7], 0) = 1 THEN "Vertical" ELSE "Horizontal"
        trainer == IF Bit(header[7], 2) = 1 THEN 512 ELSE 0
        Err(e) == [ok |-> FALSE, err |-> e]
    IN  IF Len(header) < 16 THEN Err("InvalidHeader")
        ELSE IF SubSeq(header, 1, 4) # << \h4E, \h45, \h53, \h1A >> THEN Err("InvalidHeader")
        ELSE IF file.rest < trainer THEN Err("InvalidHeader")
        ELSE IF file.rest - trainer < prg_size THEN Err("InvalidHeader")
        ELSE IF file.rest - trainer - prg_size < chr_size THEN Err("InvalidHeader")
        ELSE IF mapper_num \notin {0, 1, 2, 3, 4, 5, 7, 9, 11, 66}
            THEN Err("UnsupportedMapper")
        ELSE [ok |-> TRUE,
              cartridge |-> [prg_size |-> prg_size, chr_size |-> chr_size,
                             mapper_num |-> mapper_num, mirroring |-> mirroring]]

\* Cartridge::from_ines on a reader over the file; read_exact fails with an
\* io::Error, which `?` turns into CartridgeError::IoError
Cartridge_from_ines(file) ==
    LET header == file.header
        prg_size == header[5] * 16384
        chr_size == header[6] * 8192
        mapper_num == (header[7] \div 16) + ((header[8] \div 16) * 16)
        mirroring == IF Bit(header[7], 3) = 1 THEN "FourScreen"
                     ELSE IF Bit(header[7], 0) = 1 THEN "Vertical" ELSE "Horizontal"
        trainer == IF Bit(header[7], 2) = 1 THEN 512 ELSE 0
        Err(e) == [ok |-> FALSE, err |-> e]
    IN  IF Len(header) < 16 THEN Err("IoError")
        ELSE IF SubSeq(header, 1, 4) # << \h4E, \h45, \h53, \h1A >> THEN Err("InvalidHeader")
        ELSE IF file.rest < trainer THEN Err("IoError")
        ELSE IF file.rest - trainer < prg_size THEN Err("IoError")
        ELSE IF file.rest - trainer - prg_size < chr_size THEN Err("IoError")
        ELSE IF mapper_num \notin {0, 1, 2, 3, 4, 5, 7, 9, 11, 66}
            THEN Err("UnsupportedMapper")
        ELSE [ok |-> TRUE,
              cartridge |-> [prg_size |-> prg_size, chr_size |-> chr_size,
                             mapper_num |-> mapper_num, mirroring |-> mirroring]]

\* the files: a header cut after 0, 3, 4, 15 or all of its 16 bytes, with a
\* good or a bad first byte, one or two PRG banks, CHR or none, a trainer or
\* none, mapper 0, 1 or the unsupported 15, and what follows the header
InesFiles ==
    { [header |-> SubSeq(<< m, \h45, \h53, \h1A, prg, chr, flags, 0,
                            0, 0, 0, 0, 0, 0, 0, 0 >>, 1, n),
       rest |-> rest] :
        m \in {\h4E, \h4D}, prg \in {1, 2}, chr \in {0, 1},
        flags \in {\h00, \h04, \h11, \hF0}, n \in {0, 3, 4, 15, 16},
        rest \in {0, 512, 16383, 16384, 16896, 24575, 24576, 25088, 32768, 40960} }

\* the host calls Cartridge::from_ines(reader)
LoadRom ==
    /\ obs.ines.loads < MaxLoads
    /\ \E file \in InesFiles :
          obs' = [obs EXCEPT !.ines = [loads |-> obs.ines.loads + 1, file |-> << file >>,
                                       result |-> << Cartridge_from_ines(file) >>]]
    /\ UNCHANGED <<nes, host>>

InitLoad ==
    /\ nes = Nes_new
    /\ host = Host_new(0)
    /\ obs = Obs_new

NextLoad == LoadRom

SpecLoad == InitLoad /\ [][NextLoad]_vars

\* the bytes the header of a file declares after it
InesDeclared(header) ==
    (IF Bit(header[7], 2) = 1 THEN 512 ELSE 0) + (header[5] * 16384) + (header[6] * 8192)

\* C24: loading fails with InvalidHeader when the first four bytes of the
\* input are not 'N','E','S',$1A and when the input ends before the header,
\* trainer, PRG-ROM and CHR-ROM it declares; no Cartridge is produced.
C24_InvalidHeader ==
    LET file == obs.ines.file[1]
        header == file.header
        result == obs.ines.result[1]
        magic == Len(header) >= 4 /\ SubSeq(header, 1, 4) = << \h4E, \h45, \h53, \h1A >>
        short == Len(header) < 16 \/ file.rest < InesDeclared(header)
    IN  (obs.ines.file # <<>> /\ (~magic \/ short))
          => (~result.ok /\ result.err = "InvalidHeader")

\* C24, with the error of the truncated input: loading fails with
\* InvalidHeader when the input has the 16 bytes of a header and the first
\* four are not 'N','E','S',$1A, and with IoError when the input ends before
\* the header, trainer, PRG-ROM and CHR-ROM it declares.
C24_InvalidHeaderOrIoError ==
    LET file == obs.ines.file[1]
        header == file.header
        result == obs.ines.result[1]
        magic == SubSeq(header, 1, 4) = << \h4E, \h45, \h53, \h1A >>
    IN  obs.ines.file # <<>>
          => /\ Len(header) < 16 => (~result.ok /\ result.err = "IoError")
             /\ (Len(header) = 16 /\ ~magic) => (~result.ok /\ result.err = "InvalidHeader")
             /\ (Len(header) = 16 /\ magic /\ file.rest < InesDeclared(header))
                  => (~result.ok /\ result.err = "IoError")

\* a file with the magic, a trainer, two PRG banks and a CHR bank, one byte
\* short, was refused
C24_Witness ==
    /\ obs.ines.file # <<>>
    /\ Len(obs.ines.file[1].header) = 16
    /\ obs.ines.file[1].header[1] = \h4E
    /\ obs.ines.file[1].rest = InesDeclared(obs.ines.file[1].header) - 1
    /\ ~obs.ines.result[1].ok

---------------------------------------------------------------------------
(* Reset, in the runs of SpecDma: the host resets the console once, some   *)
(* cycles into the program.                                                 *)

\* C25: right after reset() the PPU's scanline and dot counters have their
\* power-on values and the APU's frame counter position is cleared, as the
\* CPU registers are reset and PC is loaded from the reset vector.
C25_ResetRestoresTiming ==
    (host.reset /\ nes.clock.cpu_cycles = 0)
      => /\ nes.bus.ppu.scanline = Ppu_new.scanline
         /\ nes.bus.ppu.cycle = Ppu_new.cycle
         /\ nes.bus.apu.frame_cycles = Apu_new.frame_cycles
         /\ nes.cpu = [Cpu_new EXCEPT !.pc = Cpu_read_word([cpu |-> nes.cpu, bus |-> nes.bus],
                                                           \hFFFC).value]

\* C29: reset() called twice in succession leaves the console as one call
\* does: in every state two calls give what one gives, and right after a
\* reset another changes nothing.
C29_ResetIdempotent ==
    /\ Nes_reset(Nes_reset(nes)) = Nes_reset(nes)
    /\ (host.reset /\ nes.clock.cpu_cycles = 0) => Nes_reset(nes) = nes

\* the console right after a reset made some cycles into the program
C29_Witness ==
    /\ host.reset /\ nes.clock.cpu_cycles = 0
    /\ nes.bus.ppu.probe.ticks > 0
    /\ Nes_reset(nes) = nes

---------------------------------------------------------------------------
(* The audio queue of the Apu.  Samples are numbered from 1 in the order   *)
(* the Apu produces them; 0 is silence.  `elapsed` says whether a second   *)
(* has passed since the queue was last resized.                            *)

MaxAudioOps == 10
MaxPull == 3
AudioSampleRate == 200

\* usize::next_power_of_two
NextPowerOfTwo(n) == CHOOSE p \in {1, 2, 4, 8, 16, 32, 64} : p >= n /\ (p = 1 \/ p \div 2 < n)

AudioRingBuffer_new(capacity) == [buffer |-> <<>>, capacity |-> capacity]

\* AudioRingBuffer::write
AudioRingBuffer_write(rb, samples) ==
    LET to_write == Min(Len(samples), rb.capacity - Len(rb.buffer))
    IN  [rb |-> [rb EXCEPT !.buffer = rb.buffer \o SubSeq(samples, 1, to_write)],
         n |-> to_write]

\* a read that pops the newest samples first
AudioRingBuffer_read_back(rb, output) ==
    LET to_read == Min(Len(output), Len(rb.buffer))
    IN  [rb |-> [rb EXCEPT !.buffer = SubSeq(rb.buffer, 1, Len(rb.buffer) - to_read)],
         output |-> [i \in 1..Len(output) |->
                        IF i <= to_read THEN rb.buffer[Len(rb.buffer) + 1 - i] ELSE output[i]],
         n |-> to_read]

\* AudioRingBuffer::read
AudioRingBuffer_read(rb, output) ==
    LET to_read == Min(Len(output), Len(rb.buffer))
    IN  [rb |-> [rb EXCEPT !.buffer = SubSeq(rb.buffer, to_read + 1, Len(rb.buffer))],
         output |-> [i \in 1..Len(output) |->
                        IF i <= to_read THEN rb.buffer[i] ELSE output[i]],
         n |-> to_read]

\* AdaptiveBuffer::new
AdaptiveBuffer_new(sample_rate, target_latency_ms) ==
    LET target_size == NextPowerOfTwo((sample_rate * target_latency_ms) \div 1000)
    IN  [buffer |-> AudioRingBuffer_new(target_size),
         min_size |-> target_size \div 2, max_size |-> target_size * 4,
         underrun_count |-> 0, overrun_count |-> 0]

\* AdaptiveBuffer::check_resize
AdaptiveBuffer_check_resize(ab, elapsed) ==
    LET current_size == ab.buffer.capacity
        new_size == IF ab.underrun_count > 5
                    THEN Min((current_size * 3) \div 2, ab.max_size)
                    ELSE IF ab.overrun_count > 5 /\ ab.underrun_count = 0
                    THEN LET v == (current_size * 2) \div 3
                         IN  IF v < ab.min_size THEN ab.min_size ELSE v
                    ELSE current_size
    IN  IF ~elapsed \/ new_size = current_size THEN ab
        ELSE [ab EXCEPT !.buffer = AudioRingBuffer_write(AudioRingBuffer_new(new_size),
                                                         ab.buffer.buffer).rb,
                        !.underrun_count = 0, !.overrun_count = 0]

\* AdaptiveBuffer::write
AdaptiveBuffer_write(ab, samples, elapsed) ==
    LET checked == IF Len(ab.buffer.buffer) >= ab.buffer.capacity
                   THEN AdaptiveBuffer_check_resize(
                            [ab EXCEPT !.overrun_count = ab.overrun_count + 1], elapsed)
                   ELSE ab
    IN  [checked EXCEPT !.buffer = AudioRingBuffer_write(checked.buffer, samples).rb]

\* AdaptiveBuffer::read
AdaptiveBuffer_read(ab, output, elapsed) ==
    LET r == AudioRingBuffer_read(ab.buffer, output)
        taken == [ab EXCEPT !.buffer = r.rb]
    IN  IF r.n < Len(output)
        THEN [ab |-> AdaptiveBuffer_check_resize(
                         [taken EXCEPT !.underrun_count = ab.underrun_count + 1], elapsed),
              output |-> [i \in 1..Len(output) |-> IF i <= r.n THEN r.output[i] ELSE 0],
              n |-> r.n]
        ELSE [ab |-> taken, output |-> r.output, n |-> r.n]

\* what a call that took the queue from ab to ab2 did to its capacity;
\* queued holds the samples that were in the queue when check_resize ran
Resized(ab, queued, ab2, last) ==
    IF ab2.buffer.capacity = ab.buffer.capacity THEN last
    ELSE << [queued |-> queued, kept |-> ab2.buffer.buffer,
             from |-> ab.buffer.capacity, to |-> ab2.buffer.capacity] >>

\* Apu::step hands the next resampled sample to the queue
ApuSample ==
    LET id == obs.audio.written + 1
        ab == nes.bus.apu.output_buffer
    IN  /\ obs.audio.ops < MaxAudioOps
        /\ \E elapsed \in BOOLEAN :
              nes' = [nes EXCEPT !.bus.apu.output_buffer =
                         AdaptiveBuffer_write(ab, << id >>, elapsed)]
        /\ obs' = [obs EXCEPT !.audio.ops = obs.audio.ops + 1, !.audio.written = id,
                              !.resize = Resized(ab, ab.buffer.buffer,
                                                 nes'.bus.apu.output_buffer, @)]
        /\ UNCHANGED host

\* the host calls apu.read_samples(output) with a slice of n floats
ReadSamples ==
    LET ab == nes.bus.apu.output_buffer
        pull(given, r) ==
            /\ nes' = [nes EXCEPT !.bus.apu.output_buffer = r.ab]
            /\ obs' = [obs EXCEPT !.audio =
                         [ops |-> obs.audio.ops + 1, written |-> obs.audio.written,
                          pulled |-> TRUE, before |-> ab.buffer.buffer,
                          given |-> given, out |-> r.output, read |-> r.n,
                          after |-> r.ab.buffer.buffer],
                                  !.resize = Resized(ab, AudioRingBuffer_read(ab.buffer, given).rb.buffer,
                                                     r.ab, @)]
    IN  /\ obs.audio.ops < MaxAudioOps
        /\ \E n \in 0..MaxPull, elapsed \in BOOLEAN :
              pull([i \in 1..n |-> 99], AdaptiveBuffer_read(ab, [i \in 1..n |-> 99], elapsed))
        /\ UNCHANGED host

InitAudio ==
    /\ nes = [Nes_new EXCEPT !.bus.apu =
                 [output_buffer |-> AdaptiveBuffer_new(AudioSampleRate, 20)] @@ Apu_new]
    /\ host = Host_new(0)
    /\ obs = Obs_new

NextAudio == ApuSample \/ ReadSamples

SpecAudio == InitAudio /\ [][NextAudio]_vars

\* C26: a pull of n samples returns a count r <= n; out[0..r] holds the r
\* oldest queued samples in the order they were produced, out[r..n] is 0.0,
\* and those r samples and no others leave the queue.
C26_PullNeverBlocks ==
    LET a == obs.audio
        n == Len(a.given)
    IN  a.pulled
          => /\ a.read <= n
             /\ a.read = Min(n, Len(a.before))
             /\ \A i \in 1..n : a.out[i] = IF i <= a.read THEN a.before[i] ELSE 0
             /\ a.after = SubSeq(a.before, a.read + 1, Len(a.before))

\* C39: a capacity change of the output queue keeps every sample that was
\* queued when it happened, in order and once each, and the new capacity
\* lies in min_size..max_size.
C39_ResizePreservesQueue ==
    \A k \in DOMAIN obs.resize :
        LET r == obs.resize[k]
            ab == nes.bus.apu.output_buffer
        IN  /\ Len(r.queued) <= Len(r.kept)
            /\ SubSeq(r.kept, 1, Len(r.queued)) = r.queued
            /\ r.to \in ab.min_size..ab.max_size

\* a pull of three samples that found two in the queue
C26_Witness ==
    /\ obs.audio.pulled
    /\ Len(obs.audio.given) = 3 /\ obs.audio.read = 2
    /\ 0 < obs.audio.out[1] /\ obs.audio.out[1] < obs.audio.out[2]
    /\ obs.audio.out[3] = 0

---------------------------------------------------------------------------
(* The native front end: the emulator thread appends each frame's samples  *)
(* to a Vec behind a Mutex and the audio callback drains it on the audio   *)
(* thread.  The samples are numbered in the order the Apu produced them,   *)
(* and the Vec, which loses samples at its front and gains them at its     *)
(* back, holds those numbered lo + 1 to hi.                                *)

MaxProduced == 24000
AudioKeep == 22050

\* Mutex::lock returns once no thread holds the mutex
Mutex_free_always(mutex) == TRUE

Mutex_free(mutex) == mutex = "free"

\* the state of main() and of the audio device after audio_device.resume()
Native_new ==
    [ emu |-> [pc |-> "run", batch |-> 0],
      cb |-> [pc |-> "idle", len |-> 0, available |-> 0],
      mutex |-> "free",
      samples |-> [lo |-> 0, hi |-> 0],
      produced |-> 0 ]

\* one step of the main loop: run a frame and take its samples, lock, extend,
\* drop all but the last AudioKeep samples, unlock at the end of the block
EmulatorThread ==
    LET emu == host.emu
        v == host.samples
    IN  /\ CASE emu.pc = "run" ->
                  \E n \in {0, 735} :
                      /\ host.produced + n <= MaxProduced
                      /\ host' = [host EXCEPT !.produced = host.produced + n,
                                              !.emu = [pc |-> IF n = 0 THEN "run" ELSE "lock",
                                                       batch |-> n]]
             [] emu.pc = "lock" ->
                  /\ Mutex_free(host.mutex)
                  /\ host' = [host EXCEPT !.mutex = "emu", !.emu.pc = "extend"]
             [] emu.pc = "extend" ->
                  host' = [host EXCEPT !.samples.hi = v.hi + emu.batch, !.emu.pc = "trim"]
             [] emu.pc = "trim" ->
                  host' = [host EXCEPT !.samples.lo = IF v.hi - v.lo > AudioKeep
                                                      THEN v.hi - AudioKeep ELSE v.lo,
                                       !.emu.pc = "unlock"]
             [] emu.pc = "unlock" ->
                  host' = [host EXCEPT !.mutex = "free", !.emu.pc = "run"]
        /\ UNCHANGED <<nes, obs>>

\* AudioOutput::callback, called by the audio thread with a slice of len
\* floats: lock, copy, fill with silence, drain, unlock on return
AudioCallback ==
    LET cb == host.cb
        v == host.samples
        copy(available) ==
            /\ host' = [host EXCEPT !.cb.available = available, !.cb.pc = "drain"]
            /\ obs' = [obs EXCEPT !.native =
                         [delivered |-> IF available > 0 THEN v.lo + available
                                        ELSE obs.native.delivered,
                          callbacks |-> Min(obs.native.callbacks + 1, 2),
                          in_order |-> obs.native.in_order
                                         /\ (available > 0 => v.lo >= obs.native.delivered)]]
    IN  /\ CASE cb.pc = "idle" ->
                  /\ \E len \in {512, 4096} :
                        host' = [host EXCEPT !.cb = [pc |-> "lock", len |-> len, available |-> 0]]
                  /\ UNCHANGED obs
             [] cb.pc = "lock" ->
                  /\ Mutex_free(host.mutex)
                  /\ host' = [host EXCEPT !.mutex = "cb", !.cb.pc = "copy"]
                  /\ UNCHANGED obs
             [] cb.pc = "copy" -> copy(Min(v.hi - v.lo, cb.len))
             [] cb.pc = "drain" ->
                  /\ host' = [host EXCEPT !.samples.lo = v.lo + cb.available,
                                          !.cb.pc = "unlock"]
                  /\ UNCHANGED obs
             [] cb.pc = "unlock" ->
                  /\ host' = [host EXCEPT !.mutex = "free", !.cb.pc = "idle"]
                  /\ UNCHANGED obs
        /\ UNCHANGED nes

InitNative ==
    /\ nes = Nes_new
    /\ host = Native_new
    /\ obs = Obs_new

NextNative == EmulatorThread \/ AudioCallback

SpecNative == InitNative /\ [][NextNative]_vars

\* C27: each thread touches the shared samples only while it holds the
\* mutex; every sample reaches the callback at most once and in the order
\* of production; and the threads cannot deadlock: a thread that waits for
\* the mutex holds none, and a held mutex is held by a thread that is on its
\* way to releasing it.
C27_SharedBufferUnderMutex ==
    /\ host.emu.pc \in {"extend", "trim", "unlock"} <=> host.mutex = "emu"
    /\ host.cb.pc \in {"copy", "drain", "unlock"} <=> host.mutex = "cb"
    /\ obs.native.in_order
    /\ obs.native.delivered <= host.produced
    /\ (host.emu.pc = "lock" /\ host.cb.pc = "lock") => host.mutex = "free"

\* the callback has been given samples twice, the emulator waits for the
\* mutex the callback holds, and old samples have been dropped
C27_Witness ==
    /\ obs.native.callbacks = 2 /\ obs.native.delivered > AudioKeep
    /\ host.emu.pc = "lock" /\ host.mutex = "cb"

---------------------------------------------------------------------------
(* Interrupt priority: hosts that call step, cpu.trigger_nmi() and          *)
(* cpu.trigger_irq() on a program that runs with I clear.                   *)

\* the Cpu cycles a host of this section runs
MaxPrioCycles == 60

\* "prio": CLI, then a loop of NOP and JMP; the NMI handler is INC $10, RTI
\*         and the IRQ handler INC $11, RTI
PrioCart ==
    [name |-> "prio", mapper |-> Mapper0_new, entry |-> \h80,
     reset |-> << \h58, \hEA, \h4C, \h01, \h80 >>,
     nmi |-> << \hE6, \h10, \h40 >>, irq |-> << \hE6, \h11, \h40 >>]

\* the host calls nes.step()
PrioStep ==
    LET seen(n2) ==
            [last |-> << [nmi_pending |-> nes.cpu.nmi_pending,
                          irq_pending |-> nes.cpu.irq_pending,
                          i |-> Bit(nes.cpu.status, 2),
                          nmi_taken |-> Get(n2.bus.ram, \h10) # Get(nes.bus.ram, \h10),
                          irq_taken |-> Get(n2.bus.ram, \h11) # Get(nes.bus.ram, \h11),
                          irq_after |-> n2.cpu.irq_pending] >>,
             both |-> obs.prio.both
                        + (IF nes.cpu.nmi_pending /\ nes.cpu.irq_pending THEN 1 ELSE 0)]
    IN  /\ nes.clock.cpu_cycles < host.limit
        /\ nes' = Nes_step(nes)
        /\ obs' = [Observe(obs, nes, nes') EXCEPT !.prio = seen(nes')]
        /\ UNCHANGED host

\* the host calls nes.cpu.trigger_nmi()
TriggerNmi ==
    /\ ~nes.cpu.nmi_pending
    /\ nes' = [nes EXCEPT !.cpu = Cpu_trigger_nmi(nes.cpu)]
    /\ UNCHANGED <<host, obs>>

\* the host calls nes.cpu.trigger_irq(), which has an effect with I clear
TriggerIrq ==
    /\ ~nes.cpu.irq_pending
    /\ Bit(nes.cpu.status, 2) = 0
    /\ nes' = [nes EXCEPT !.cpu = Cpu_trigger_irq(nes.cpu)]
    /\ UNCHANGED <<host, obs>>

InitPrio ==
    /\ nes = Nes_load_cartridge(Nes_new, PrioCart)
    /\ host = Host_new(MaxPrioCycles)
    /\ obs = Obs_new

NextPrio == PrioStep \/ TriggerNmi \/ TriggerIrq

SpecPrio == InitPrio /\ [][NextPrio]_vars

\* C35: at an instruction boundary with an NMI and an IRQ both pending the
\* Cpu takes the NMI vector and not the IRQ vector, and the IRQ is still
\* pending afterwards; a pending IRQ goes away only by being serviced, at a
\* boundary with no NMI pending and I clear, and at such a boundary it is
\* serviced.
C35_NmiBeforeIrq ==
    \A k \in DOMAIN obs.prio.last :
        LET l == obs.prio.last[k]
        IN  /\ (l.nmi_pending /\ l.irq_pending)
                  => (l.nmi_taken /\ ~l.irq_taken /\ l.irq_after)
            /\ (l.irq_pending /\ ~l.irq_after)
                  => (~l.nmi_pending /\ l.i = 0 /\ l.irq_taken)
            /\ (l.irq_pending /\ ~l.nmi_pending /\ l.i = 0) => l.irq_taken

\* a step began with both lines pending, and the IRQ has now been serviced,
\* after the NMI handler returned
C35_Witness ==
    /\ obs.prio.both >= 1
    /\ obs.prio.last # << >>
    /\ obs.prio.last[1].irq_taken
    /\ Get(nes.bus.ram, \h10) >= 1

---------------------------------------------------------------------------
(* The VRAM address with rendering off: hosts that step a program which     *)
(* writes one byte to a nametable and leaves PPUMASK at 0.                  *)

\* the Cpu cycles a host of this section runs
MaxScrollCycles == 200

\* "scroll": LDA #$20, STA $2006, LDA #lo, STA $2006, LDA #$2A, STA $2007,
\*           then a JMP to itself
ScrollCart(lo) ==
    [name |-> "scroll", mapper |-> Mapper0_new, entry |-> \h80,
     reset |-> << \hA9, \h20, \h8D, \h06, \h20, \hA9, lo, \h8D, \h06, \h20,
                  \hA9, \h2A, \h8D, \h07, \h20, \h4C, \h0F, \h80 >>,
     nmi |-> << \h40 >>, irq |-> << \h40 >>]

\* the host calls nes.step()
ScrollStep ==
    LET seen(mid, n2) == << [mask |-> mid.bus.ppu.mask, set |-> mid.bus.ppu.v,
                             after |-> n2.bus.ppu.v] >>
    IN  /\ nes.clock.cpu_cycles < host.limit
        /\ nes' = Nes_step(nes)
        /\ obs' = [Observe(obs, nes, nes') EXCEPT
                      !.scroll = seen(Cpu_step([cpu |-> nes.cpu, bus |-> nes.bus]).s, nes')]
        /\ UNCHANGED host

InitScroll ==
    /\ \E lo \in {\h05, \h1F, \hE0} : nes = Nes_load_cartridge(Nes_new, ScrollCart(lo))
    /\ host = Host_new(MaxScrollCycles)
    /\ obs = Obs_new

NextScroll == ScrollStep

SpecScroll == InitScroll /\ [][NextScroll]_vars

\* C36: with PPUMASK bits 3 and 4 clear the PPU ticks of a step leave v as
\* the step's instruction left it, and the byte the program writes to
\* PPUDATA after setting the address to $20lo is at $20lo.
C36_AddressKeptWhileOff ==
    /\ \A k \in DOMAIN obs.scroll :
          Field(obs.scroll[k].mask, 3, 2) = 0 => obs.scroll[k].after = obs.scroll[k].set
    /\ obs.steps >= 6 =>
          Get(nes.bus.ppu.vram, Ppu_mirror_address(\h2000 + TheCart.reset[7])) = \h2A

---------------------------------------------------------------------------
(* Sprite-0 hit: hosts that step a program which moves sprite 0 to column   *)
(* x and turns rendering on, over a CHR-ROM with every pixel opaque.        *)

\* the Cpu cycles a host of this section runs
MaxHitCycles == 300

\* "hit": LDA #3, STA $2003, LDA #x, STA $2004 (the x byte of OAM entry 0),
\*        LDA #$18, STA $2001 (background and sprites on), then a JMP to
\*        itself
HitCart(x) ==
    [name |-> "hit", mapper |-> Mapper0_new, entry |-> \h80,
     reset |-> << \hA9, \h03, \h8D, \h03, \h20, \hA9, x, \h8D, \h04, \h20,
                  \hA9, \h18, \h8D, \h01, \h20, \h4C, \h0F, \h80 >>,
     nmi |-> << \h40 >>, irq |-> << \h40 >>]

InitHit ==
    /\ \E x \in {0, 250, 254, 255} : nes = Nes_load_cartridge(Nes_new, HitCart(x))
    /\ host = Host_new(MaxHitCycles)
    /\ obs = Obs_new

NextHit == Step

SpecHit == InitHit /\ [][NextHit]_vars

\* C32: the sprite-0 hit flag is set only at a dot in 1..254 of a visible
\* scanline at which the background pixel and the pixel of the sprite that
\* came from OAM entry 0 are both non-zero, never at dot 255 or 256; and it
\* is set by nothing else.
C32_SpriteZeroHitDots ==
    LET ppu == nes.bus.ppu
    IN  /\ Bit(ppu.status, 6) = 1 => ppu.probe.hit # << >>
        /\ \A i \in DOMAIN ppu.probe.hit :
              /\ ppu.probe.hit[i].scanline \in 0..239
              /\ ppu.probe.hit[i].dot \in 1..254
              /\ ppu.probe.hit[i].bg_pixel # 0
              /\ ppu.probe.hit[i].pixel # 0
              /\ ppu.probe.hit[i].index = 0

---------------------------------------------------------------------------
(* The sound channels: hosts that drive the Apu alone, with its length      *)
(* counters and its noise register.                                         *)

\* the Apu cycles a host of this section runs, the writes it makes and the
\* values of apu.cycles at which it makes them
MaxChanCycles == 15000
MaxChanWrites == 2
ChanWriteTimes == {0, 7000}

LENGTH_TABLE ==
    << 10, 254, 20, 2, 40, 4, 80, 6, 160, 8, 60, 10, 14, 12, 26, 14,
       12, 16, 24, 18, 48, 20, 96, 22, 192, 24, 72, 26, 16, 28, 32, 30 >>

NOISE_PERIOD_TABLE ==
    << 4, 8, 16, 32, 64, 96, 128, 160, 202, 254, 380, 508, 762, 1016, 2034, 4068 >>

ChannelNames == {"pulse1", "pulse2", "triangle", "noise"}

\* the channel fields of Apu::with_sample_rate that the length counters and
\* the noise register use
Channels_new ==
    [ pulse1 |-> [enabled |-> FALSE, length_counter |-> 0],
      pulse2 |-> [enabled |-> FALSE, length_counter |-> 0],
      triangle |-> [enabled |-> FALSE, length_counter |-> 0, control_flag |-> FALSE],
      noise |-> [enabled |-> FALSE, length_counter |-> 0, timer |-> 0, timer_period |-> 0,
                 mode |-> FALSE, shift_register |-> 1] ]

\* Apu::write_register with the channels: write_pulse, write_triangle,
\* write_noise and the $4015 arm
Channels_write_register(apu, addr, value) ==
    LET length == LENGTH_TABLE[(value \div 8) + 1]
        off(c, bit) == IF Bit(value, bit) = 1
                       THEN [c EXCEPT !.enabled = TRUE]
                       ELSE [c EXCEPT !.enabled = FALSE, !.length_counter = 0]
    IN  CASE addr = \h4003 -> [apu EXCEPT !.pulse1.length_counter = length]
          [] addr = \h4007 -> [apu EXCEPT !.pulse2.length_counter = length]
          [] addr = \h4008 -> [apu EXCEPT !.triangle.control_flag = Bit(value, 7) = 1]
          [] addr = \h400B -> [apu EXCEPT !.triangle.length_counter = length]
          [] addr = \h400E -> [apu EXCEPT !.noise.mode = Bit(value, 7) = 1,
                                          !.noise.timer_period =
                                              NOISE_PERIOD_TABLE[(value % 16) + 1]]
          [] addr = \h400F -> [apu EXCEPT !.noise.length_counter = length]
          [] addr = \h4015 -> [apu EXCEPT !.pulse1 = off(apu.pulse1, 0),
                                          !.pulse2 = off(apu.pulse2, 1),
                                          !.triangle = off(apu.triangle, 2),
                                          !.noise = off(apu.noise, 3)]
          [] OTHER -> Apu_write_register(apu, addr, value)

\* Apu::clock_length_counter
Apu_clock_length_counter(counter) == IF counter > 0 THEN counter - 1 ELSE counter

\* Apu::clock_half_frame: the length counters
Apu_clock_half_frame(apu) ==
    [apu EXCEPT
        !.pulse1.length_counter = Apu_clock_length_counter(apu.pulse1.length_counter),
        !.pulse2.length_counter = Apu_clock_length_counter(apu.pulse2.length_counter),
        !.triangle.length_counter = Apu_clock_length_counter(apu.triangle.length_counter),
        !.noise.length_counter = Apu_clock_length_counter(apu.noise.length_counter)]

\* a noise register that shifts without feedback
Apu_clock_noise_open(noise) ==
    IF noise.timer > 0
    THEN [noise EXCEPT !.timer = noise.timer - 1]
    ELSE [noise EXCEPT !.timer = noise.timer_period,
                       !.shift_register = noise.shift_register \div 2]

\* Apu::clock_noise
Apu_clock_noise(noise) ==
    LET r == noise.shift_register
        feedback == IF noise.mode THEN Bit(r, 0) # Bit(r, 6) ELSE Bit(r, 0) # Bit(r, 1)
    IN  IF noise.timer > 0
        THEN [noise EXCEPT !.timer = noise.timer - 1]
        ELSE [noise EXCEPT !.timer = noise.timer_period,
                           !.shift_register = IF feedback THEN SetBit(r \div 2, 14)
                                                          ELSE r \div 2]

\* Apu::step with the channels: clock_timers clocks the noise channel on
\* even cycles, the sequencer clocks the length counters
Channels_step(apu) ==
    LET timers(a) == IF a.cycles % 2 = 0
                     THEN [a EXCEPT !.noise = Apu_clock_noise(a.noise)] ELSE a
        frame(a) == IF a.probe.half > apu.probe.half THEN Apu_clock_half_frame(a) ELSE a
    IN  frame(timers(Apu_step(apu)))

Lengths(apu) == [c \in ChannelNames |-> apu[c].length_counter]

\* the host calls apu.step()
ChanStep ==
    LET apu == nes.bus.apu
        seen(a) == IF a.probe.half > apu.probe.half
                   THEN [obs.chan EXCEPT !.halves = obs.chan.halves + 1,
                                         !.at_half = << [halt |-> obs.chan.halt,
                                                         before |-> Lengths(apu),
                                                         after |-> Lengths(a)] >>]
                   ELSE obs.chan
        step(a) == /\ nes' = [nes EXCEPT !.bus.apu = a]
                   /\ obs' = [obs EXCEPT !.chan = seen(a)]
    IN  /\ apu.cycles < MaxChanCycles
        /\ step(Channels_step(apu))
        /\ UNCHANGED host

\* the register writes of this section: the length-halt flag of pulse 1, a
\* length load of pulse 1 and of the noise channel, the noise mode, all
\* channels on and off
ChanWrites ==
    { << \h4000, \h20 >>, << \h4003, \h18 >>, << \h400F, \h18 >>, << \h400E, \h80 >>,
      << \h4015, \h0F >>, << \h4015, \h00 >> }

\* the host calls apu.write_register(addr, value)
ChanWrite ==
    LET apu == nes.bus.apu
        halt(w) == CASE w[1] = \h4000 -> [obs.chan.halt EXCEPT !.pulse1 = Bit(w[2], 5) = 1]
                     [] w[1] = \h4004 -> [obs.chan.halt EXCEPT !.pulse2 = Bit(w[2], 5) = 1]
                     [] w[1] = \h4008 -> [obs.chan.halt EXCEPT !.triangle = Bit(w[2], 7) = 1]
                     [] w[1] = \h400C -> [obs.chan.halt EXCEPT !.noise = Bit(w[2], 5) = 1]
                     [] OTHER -> obs.chan.halt
        loaded(w) == CASE w[1] = \h4003 -> << "pulse1" >>
                       [] w[1] = \h4007 -> << "pulse2" >>
                       [] w[1] = \h400B -> << "triangle" >>
                       [] w[1] = \h400F -> << "noise" >>
                       [] OTHER -> << >>
        load(w, a) == IF loaded(w) = << >> THEN obs.chan.load
                      ELSE << [channel |-> loaded(w)[1],
                               enabled |-> apu[loaded(w)[1]].enabled,
                               counter |-> a[loaded(w)[1]].length_counter] >>
        write(w, a) ==
            /\ nes' = [nes EXCEPT !.bus.apu = a]
            /\ obs' = [obs EXCEPT !.chan.writes = obs.chan.writes + 1,
                                  !.chan.halt = halt(w),
                                  !.chan.load = load(w, a)]
    IN  /\ obs.chan.writes < MaxChanWrites
        /\ apu.cycles \in ChanWriteTimes
        /\ \E w \in ChanWrites : write(w, Channels_write_register(apu, w[1], w[2]))
        /\ UNCHANGED host

InitChan ==
    /\ nes = [Nes_new EXCEPT !.bus.apu = Channels_new @@ Apu_new]
    /\ host = Host_new(MaxChanCycles)
    /\ obs = Obs_new

NextChan == ChanStep \/ ChanWrite

SpecChan == InitChan /\ [][NextChan]_vars

\* C31: at a half-frame clock a channel's length counter goes down by one
\* if the channel's length-halt flag is clear and the counter is not zero,
\* and keeps its value otherwise: with the halt flag set it does not move.
C31_LengthHalt ==
    \A c \in ChannelNames :
        obs.chan.at_half # << >> =>
            LET h == obs.chan.at_half[1]
            IN  h.after[c] = IF ~h.halt[c] /\ h.before[c] > 0
                             THEN h.before[c] - 1 ELSE h.before[c]

\* C38: a channel that is disabled in $4015 has a length counter of 0, also
\* after a write to its length-load register.
C38_DisabledLengthZero ==
    /\ \A c \in ChannelNames :
          ~nes.bus.apu[c].enabled => nes.bus.apu[c].length_counter = 0
    /\ \A i \in DOMAIN obs.chan.load :
          ~obs.chan.load[i].enabled => obs.chan.load[i].counter = 0

\* C40: the noise channel's shift register is in 1..$7FFF, in both feedback
\* modes.
C40_NoiseRegisterRange ==
    nes.bus.apu.noise.shift_register \in 1..\h7FFF

\* the register has been shifted some thousand times, the last of them in
\* short mode, and a feedback bit has just entered at bit 14
C40_Witness ==
    /\ nes.bus.apu.cycles > 10000
    /\ nes.bus.apu.noise.mode
    /\ nes.bus.apu.noise.timer = nes.bus.apu.noise.timer_period
    /\ Bit(nes.bus.apu.noise.shift_register, 14) = 1

====
